---------------------------- MODULE Spec2Model ----------------------------
(***************************************************************************)
(* Model of src/app.py: the Opportunity / Contact Role coverage report.    *)
(*                                                                         *)
(* Text (IDs, stage names, column headers, job titles) is modelled as      *)
(* sequences of one-character strings, so that trimming, lower-casing,     *)
(* substring tests and regular-expression searches are computed on the     *)
(* characters as the Python code computes them.  Fractions (win rate,      *)
(* averages, scores) are exact rationals <<numerator, denominator>>.       *)
(***************************************************************************)
EXTENDS Integers, Sequences, FiniteSets, TLC

VARIABLES
    pc,             \* position of the script run (src/app.py:477-1405)
    opps_file,      \* uploaded Opportunities CSV
    roles_file,     \* uploaded Opportunities-with-Contact-Roles CSV
    opps,           \* the opps DataFrame
    roles,          \* the roles DataFrame
    ui,             \* widget values read and messages shown during the run
    masks,          \* won/lost/open/early/mid/late masks and user_mapped_any
    metrics,        \* the computed figures
    clean_call,     \* one call chain of clean_id_series
    load_call,      \* one call of load_csv
    seniority_call, \* one call of bucket_seniority
    sim_call,       \* one call of modeled_win_rate_for_open
    normalize_call, \* one call of normalize_and_standardize_columns
    wilson_call     \* one call of wilson_ci

vars == <<pc, opps_file, roles_file, opps, roles, ui, masks, metrics,
          clean_call, load_call, seniority_call, sim_call,
          normalize_call, wilson_call>>

pipeline_vars == <<pc, opps_file, roles_file, opps, roles, ui, masks, metrics>>

Idle == [st |-> "idle"]

-----------------------------------------------------------------------------
(* Bounds of the model *)

MaxIdLen == 4
MaxDeals == 3
MaxBytes == 3
MaxTitleWords == 3
MaxOpps == 3
MaxRoles == 3

-----------------------------------------------------------------------------
(* Text helpers: Python str methods on character sequences *)

SeqsUpTo(A, n) == UNION {[1..k -> A] : k \in 0..n}

UpperCase == <<"A","B","C","D","E","F","G","H","I","J","K","L","M",
               "N","O","P","Q","R","S","T","U","V","W","X","Y","Z">>
LowerCase == <<"a","b","c","d","e","f","g","h","i","j","k","l","m",
               "n","o","p","q","r","s","t","u","v","w","x","y","z">>

UpperSet == {UpperCase[i] : i \in 1..26}
ToLower == [c \in UpperSet |-> LowerCase[CHOOSE i \in 1..26 : UpperCase[i] = c]]

LowerChar(c) == IF c \in UpperSet THEN ToLower[c] ELSE c

\* str.lower()
Lower(s) == [i \in 1..Len(s) |-> LowerChar(s[i])]

IsSpace(c) == c \in {" ", "\t", "\n"}

RECURSIVE LStrip(_)
LStrip(s) == IF s = <<>> \/ ~IsSpace(s[1]) THEN s ELSE LStrip(Tail(s))

RECURSIVE RStrip(_)
RStrip(s) ==
    IF s = <<>> \/ ~IsSpace(s[Len(s)]) THEN s ELSE RStrip(SubSeq(s, 1, Len(s) - 1))

\* str.strip(): drop leading and trailing whitespace
Strip(s) == RStrip(LStrip(s))

\* the Python test `sub in s`
Contains(sub, s) ==
    \E i \in 1..(Len(s) - Len(sub) + 1) : SubSeq(s, i, i + Len(sub) - 1) = sub

EndsWith(s, suffix) ==
    /\ Len(s) >= Len(suffix)
    /\ SubSeq(s, Len(s) - Len(suffix) + 1, Len(s)) = suffix

-----------------------------------------------------------------------------
(* clean_id_series, src/app.py:102-112 *)

str_nan == <<"n", "a", "n">>
str_None == <<"N", "o", "n", "e">>
str_dot0 == <<".", "0">>

Digit == <<"1", "2", "3", "4", "5", "6", "7", "8", "9">>

\* A cell of an ID column as pandas holds it: a string of an object column,
\* a number of a float64 column, or a missing value (NaN / None).
StrCell(s) == [t |-> "str", s |-> s, n |-> 0]
FloatCell(n) == [t |-> "float", s |-> <<>>, n |-> n]
NaNCell == [t |-> "nan", s |-> <<>>, n |-> 0]
NoneCell == [t |-> "none", s |-> <<>>, n |-> 0]

\* Series.astype(str) on one cell: str(1.0) = "1.0", str(nan) = "nan"
astype_str(c) ==
    CASE c.t = "str" -> c.s
      [] c.t = "float" -> <<Digit[c.n]>> \o str_dot0
      [] c.t = "nan" -> str_nan
      [] c.t = "none" -> str_None

\* s.str.replace(r"\.0$", "", regex=True) on one stripped string
strip_dot0(s) == IF EndsWith(s, str_dot0) THEN SubSeq(s, 1, Len(s) - 2) ELSE s

\* s.replace({"nan": "", "None": ""}) on one string: whole-value replacement
replace_missing(s) == IF s \in {str_nan, str_None} THEN <<>> ELSE s

\* mutant: the trailing ".0" is not removed
clean_id_keep_dot0(c) == replace_missing(Strip(astype_str(c)))

clean_id_series(c) == replace_missing(strip_dot0(Strip(astype_str(c))))

-----------------------------------------------------------------------------
(* Specification SpecClean: clean_id_series applied to a cell, then to   *)
(* its own output                                                        *)

IdAlphabet == {"1", "0", ".", " ", "n", "a"}

CleanInputs ==
    {StrCell(s) : s \in SeqsUpTo(IdAlphabet, MaxIdLen)}
        \cup {StrCell(str_None), StrCell(str_None \o str_dot0),
              StrCell(str_nan \o str_dot0), NaNCell, NoneCell}
        \cup {FloatCell(n) : n \in 1..3}

other_idle_clean ==
    /\ pc = "off" /\ opps_file = Idle /\ roles_file = Idle /\ opps = Idle
    /\ roles = Idle /\ ui = Idle /\ masks = Idle /\ metrics = Idle
    /\ load_call = Idle /\ seniority_call = Idle /\ sim_call = Idle
    /\ normalize_call = Idle /\ wilson_call = Idle

InitClean ==
    /\ other_idle_clean
    /\ \E c \in CleanInputs :
          clean_call = [st |-> "input", x |-> c, out |-> <<>>, out2 |-> <<>>]

CleanOnce ==
    /\ clean_call.st = "input"
    /\ clean_call' = [clean_call EXCEPT !.st = "cleaned",
                                        !.out = clean_id_series(clean_call.x)]
    /\ UNCHANGED <<pipeline_vars, normalize_call, wilson_call, load_call, seniority_call, sim_call,
          normalize_call, wilson_call>>

CleanAgain ==
    /\ clean_call.st = "cleaned"
    /\ clean_call' = [clean_call EXCEPT
                         !.st = "recleaned",
                         !.out2 = clean_id_series(StrCell(clean_call.out))]
    /\ UNCHANGED <<pipeline_vars, normalize_call, wilson_call, load_call, seniority_call, sim_call,
          normalize_call, wilson_call>>

NextClean == CleanOnce \/ CleanAgain

SpecClean == InitClean /\ [][NextClean]_vars

\* C4: identity cleaning is idempotent: for every input, cleaning the output
\* of clean_id_series again returns that output unchanged.
C4_CleanIdempotent ==
    clean_call.st = "recleaned" => clean_call.out2 = clean_call.out

-----------------------------------------------------------------------------
(* Exact fractions <<n, d>> with d > 0, in lowest terms: the values of the *)
(* Python float expressions of the metrics                                *)

RECURSIVE GCD(_, _)
GCD(a, b) == IF b = 0 THEN a ELSE GCD(b, a % b)

Abs(n) == IF n < 0 THEN -n ELSE n

Rat(n, d) ==
    LET g == GCD(Abs(n), d)
    IN  IF n = 0 THEN <<0, 1>> ELSE <<n \div g, d \div g>>

Int2R(n) == <<n, 1>>
RAdd(a, b) == Rat(a[1] * b[2] + b[1] * a[2], a[2] * b[2])
RSub(a, b) == Rat(a[1] * b[2] - b[1] * a[2], a[2] * b[2])
RMul(a, b) == Rat(a[1] * b[1], a[2] * b[2])
\* a / b for b # 0
RDiv(a, b) ==
    IF b[1] > 0 THEN Rat(a[1] * b[2], a[2] * b[1])
    ELSE Rat(-(a[1] * b[2]), a[2] * (-b[1]))
RLe(a, b) == a[1] * b[2] <= b[1] * a[2]
RLt(a, b) == a[1] * b[2] < b[1] * a[2]
\* Python max(a, b) and min(a, b)
RMax(a, b) == IF RLt(a, b) THEN b ELSE a
RMin(a, b) == IF RLt(b, a) THEN b ELSE a
RZero == <<0, 1>>
ROne == <<1, 1>>

-----------------------------------------------------------------------------
(* modeled_win_rate_for_open, src/app.py:892-895 *)

\* 1e-6
Epsilon == <<1, 1000000>>
\* 1.8
MaxImprovement == <<9, 5>>
\* 0.95
WinRateCeiling == <<19, 20>>

modeled_win_rate_for_open(avg_open_contacts, base_win_rate, target_contacts) ==
    LET cur == RMax(avg_open_contacts, Epsilon)
        improvement_factor == RMin(MaxImprovement, RDiv(target_contacts, cur))
    IN  RMin(RMax(RMul(base_win_rate, improvement_factor), base_win_rate),
             WinRateCeiling)

\* st.slider("Target avg contacts on Open Opps", 0.0, 5.0, 2.0, 0.5)
TargetSliderValues == {Rat(h, 2) : h \in 0..10}

-----------------------------------------------------------------------------
(* Specification SpecSim: modeled_win_rate_for_open on a win rate k/n, an *)
(* average contact count s/m of the open opportunities and a slider value *)

WinRates == {RZero} \cup UNION {{Rat(k, n) : k \in 0..n} : n \in 1..MaxDeals}

AvgContacts == {Rat(s, m) : s \in 0..(2 * MaxDeals), m \in 1..MaxDeals}

other_idle_sim ==
    /\ pc = "off" /\ opps_file = Idle /\ roles_file = Idle /\ opps = Idle
    /\ roles = Idle /\ ui = Idle /\ masks = Idle /\ metrics = Idle
    /\ load_call = Idle /\ seniority_call = Idle /\ clean_call = Idle
    /\ normalize_call = Idle /\ wilson_call = Idle

InitSim ==
    /\ other_idle_sim
    /\ \E a \in AvgContacts, b \in WinRates, t \in TargetSliderValues :
          sim_call = [st |-> "input", avg_open_contacts |-> a,
                      base_win_rate |-> b, target_contacts |-> t,
                      result |-> RZero]

CallModeledWinRate ==
    /\ sim_call.st = "input"
    /\ sim_call' = [sim_call EXCEPT
                       !.st = "returned",
                       !.result = modeled_win_rate_for_open(
                                      sim_call.avg_open_contacts,
                                      sim_call.base_win_rate,
                                      sim_call.target_contacts)]
    /\ UNCHANGED <<pipeline_vars, normalize_call, wilson_call, load_call, seniority_call, clean_call>>

NextSim == CallModeledWinRate

SpecSim == InitSim /\ [][NextSim]_vars

\* C5: for every base win rate in [0,1] and every non-negative
\* target and average, the modeled win rate is >= the base win rate and
\* <= 0.95.
C5_AtLeastBaseAtMostCeiling ==
    sim_call.st = "returned" =>
        /\ RLe(sim_call.base_win_rate, sim_call.result)
        /\ RLe(sim_call.result, WinRateCeiling)

-----------------------------------------------------------------------------
(* load_csv, src/app.py:41-51 *)

\* for enc in ["utf-8-sig", "utf-8", "latin1", "cp1252"]
Encodings == <<"utf-8-sig", "utf-8", "latin1", "cp1252">>

\* The bytes of an uploaded file, by class: "41" an ASCII byte, "C3" the lead
\* byte of a two-byte UTF-8 sequence, "A9" a UTF-8 continuation byte that
\* cp1252 defines, "81" a continuation byte that cp1252 leaves undefined,
\* "FF" a byte that never occurs in UTF-8.
ByteClasses == {"41", "C3", "A9", "81", "FF"}

RECURSIVE ValidUtf8(_)
ValidUtf8(b) ==
    IF b = <<>> THEN TRUE
    ELSE IF b[1] = "41" THEN ValidUtf8(Tail(b))
    ELSE IF b[1] = "C3"
         THEN /\ Len(b) >= 2
              /\ b[2] \in {"A9", "81"}
              /\ ValidUtf8(SubSeq(b, 3, Len(b)))
    ELSE FALSE

\* whether the codec decodes the bytes without UnicodeDecodeError
Decodes(b, enc) ==
    CASE enc \in {"utf-8-sig", "utf-8"} -> ValidUtf8(b)
      [] enc = "latin1" -> TRUE
      [] enc = "cp1252" -> \A i \in 1..Len(b) : b[i] # "81"

\* keyword parameters pandas.read_csv accepts (those that matter here); a
\* keyword outside its signature raises TypeError before anything is read
ReadCsvKeywords == {"encoding", "encoding_errors"}

\* pd.read_csv(file, **kw) reading from the current position: the outcome
read_csv(b, pos, kw) ==
    LET data == SubSeq(b, pos + 1, Len(b))
    IN  IF ~(DOMAIN kw \subseteq ReadCsvKeywords)
        THEN [ok |-> FALSE, exc |-> "TypeError", encoding |-> "none"]
        ELSE IF data = <<>>
        THEN [ok |-> FALSE, exc |-> "EmptyDataError", encoding |-> "none"]
        ELSE IF ~Decodes(data, kw.encoding)
        THEN [ok |-> FALSE, exc |-> "UnicodeDecodeError", encoding |-> "none"]
        ELSE [ok |-> TRUE, exc |-> "none", encoding |-> kw.encoding]

NoResult == [ok |-> FALSE, exc |-> "none", encoding |-> "none"]

\* what load_csv does once the four attempts have raised (lines 50-51)
load_csv_fallback(b) == read_csv(b, 0, [encoding |-> "latin1", errors |-> "replace"])

\* load_csv as one call: the first attempt that parses, else the fallback
RECURSIVE load_csv_from(_, _)
load_csv_from(b, i) ==
    IF i > Len(Encodings) THEN load_csv_fallback(b)
    ELSE LET r == read_csv(b, 0, [encoding |-> Encodings[i]])
         IN  IF r.ok THEN r ELSE load_csv_from(b, i + 1)

load_csv(b) == load_csv_from(b, 1)

-----------------------------------------------------------------------------
(* Specification SpecLoad: load_csv on the bytes of an uploaded file, one *)
(* loop iteration per step                                                *)

other_idle_load ==
    /\ pc = "off" /\ opps_file = Idle /\ roles_file = Idle /\ opps = Idle
    /\ roles = Idle /\ ui = Idle /\ masks = Idle /\ metrics = Idle
    /\ sim_call = Idle /\ seniority_call = Idle /\ clean_call = Idle
    /\ normalize_call = Idle /\ wilson_call = Idle

InitLoad ==
    /\ other_idle_load
    /\ \E b \in SeqsUpTo(ByteClasses, MaxBytes) :
          load_call = [st |-> "loop", file |-> b, pos |-> 0, i |-> 1,
                       tried |-> <<>>, result |-> NoResult]

\* one iteration of the for loop (lines 42-49): seek(0), read_csv, and either
\* return the table or swallow the exception and continue
TryEncoding ==
    /\ load_call.st = "loop"
    /\ load_call.i <= Len(Encodings)
    /\ LET enc == Encodings[load_call.i]
           r == read_csv(load_call.file, 0, [encoding |-> enc])
       IN  load_call' = [load_call EXCEPT
                            !.pos = Len(load_call.file),
                            !.tried = Append(load_call.tried, enc),
                            !.i = load_call.i + 1,
                            !.result = IF r.ok THEN r ELSE load_call.result,
                            !.st = IF r.ok THEN "returned" ELSE "loop"]
    /\ UNCHANGED <<pipeline_vars, normalize_call, wilson_call, sim_call, seniority_call, clean_call>>

\* lines 50-51: file.seek(0); return pd.read_csv(file, encoding="latin1",
\* errors="replace")
Fallback ==
    /\ load_call.st = "loop"
    /\ load_call.i > Len(Encodings)
    /\ LET r == load_csv_fallback(load_call.file)
       IN  load_call' = [load_call EXCEPT
                            !.pos = IF r.exc = "TypeError" THEN 0
                                    ELSE Len(load_call.file),
                            !.tried = Append(load_call.tried, "fallback"),
                            !.result = r,
                            !.st = IF r.ok THEN "returned" ELSE "raised"]
    /\ UNCHANGED <<pipeline_vars, normalize_call, wilson_call, sim_call, seniority_call, clean_call>>

NextLoad == TryEncoding \/ Fallback

SpecLoad == InitLoad /\ [][NextLoad]_vars

\* C10: load_csv tries utf-8-sig, utf-8, latin1, cp1252 in that order and
\* returns the first successful parse; when all four attempts raise, the
\* fallback returns a table and load_csv never raises to its caller.
C10_LoadNeverRaises ==
    /\ load_call.st # "raised"
    /\ load_call.st = "returned" =>
          /\ load_call.result.ok
          /\ \E n \in 1..(Len(Encodings) + 1) :
                /\ Len(load_call.tried) = n
                /\ \A k \in 1..n :
                      load_call.tried[k] =
                          IF k <= Len(Encodings) THEN Encodings[k] ELSE "fallback"
                /\ \A k \in 1..(n - 1) :
                      ~read_csv(load_call.file, 0, [encoding |-> Encodings[k]]).ok
          /\ load_call.result = load_csv(load_call.file)

-----------------------------------------------------------------------------
(* bucket_seniority, src/app.py:161-179 *)

\* the alternatives of the six patterns r"\b(...)\b", lines 166-176
kw_c_level ==
    {<<"c", "h", "i", "e", "f">>,
     <<"c", "e", "o">>,
     <<"c", "f", "o">>,
     <<"c", "o", "o">>,
     <<"c", "t", "o">>,
     <<"c", "i", "o">>,
     <<"c", "m", "o">>,
     <<"c", "r", "o">>,
     <<"c", "s", "o">>,
     <<"c", "p", "o">>,
     <<"f", "o", "u", "n", "d", "e", "r">>,
     <<"c", "o", "-", "f", "o", "u", "n", "d", "e", "r">>,
     <<"p", "r", "e", "s", "i", "d", "e", "n", "t">>}

kw_evp_svp ==
    {<<"e", "v", "p">>,
     <<"s", "v", "p">>,
     <<"e", "x", "e", "c", "u", "t", "i", "v", "e", " ", "v", "i", "c", "e", " ", "p", "r", "e", "s", "i", "d", "e", "n", "t">>,
     <<"s", "e", "n", "i", "o", "r", " ", "v", "i", "c", "e", " ", "p", "r", "e", "s", "i", "d", "e", "n", "t">>}

kw_vp ==
    {<<"v", "p">>,
     <<"v", "i", "c", "e", " ", "p", "r", "e", "s", "i", "d", "e", "n", "t">>}

kw_director_head ==
    {<<"d", "i", "r", "e", "c", "t", "o", "r">>,
     <<"h", "e", "a", "d", " ", "o", "f">>,
     <<"c", "h", "i", "e", "f", " ", "o", "f", " ", "s", "t", "a", "f", "f">>,
     <<"g", "m">>,
     <<"g", "e", "n", "e", "r", "a", "l", " ", "m", "a", "n", "a", "g", "e", "r">>}

kw_manager ==
    {<<"m", "a", "n", "a", "g", "e", "r">>,
     <<"l", "e", "a", "d">>,
     <<"s", "u", "p", "e", "r", "v", "i", "s", "o", "r">>}

kw_ic_staff ==
    {<<"a", "n", "a", "l", "y", "s", "t">>,
     <<"e", "n", "g", "i", "n", "e", "e", "r">>,
     <<"s", "p", "e", "c", "i", "a", "l", "i", "s", "t">>,
     <<"c", "o", "n", "s", "u", "l", "t", "a", "n", "t">>,
     <<"a", "s", "s", "o", "c", "i", "a", "t", "e">>,
     <<"c", "o", "o", "r", "d", "i", "n", "a", "t", "o", "r">>,
     <<"a", "d", "m", "i", "n", "i", "s", "t", "r", "a", "t", "o", "r">>,
     <<"r", "e", "p">>,
     <<"d", "e", "v", "e", "l", "o", "p", "e", "r">>,
     <<"d", "e", "s", "i", "g", "n", "e", "r">>,
     <<"a", "r", "c", "h", "i", "t", "e", "c", "t">>,
     <<"s", "c", "i", "e", "n", "t", "i", "s", "t">>,
     <<"s", "t", "r", "a", "t", "e", "g", "i", "s", "t">>,
     <<"o", "f", "f", "i", "c", "e", "r">>}


SeniorityPatterns ==
    <<kw_c_level, kw_evp_svp, kw_vp, kw_director_head, kw_manager, kw_ic_staff>>

SeniorityClasses ==
    <<"C-Level", "EVP / SVP", "VP", "Director / Head", "Manager", "IC / Staff">>

OtherUnknown == "Other / Unknown"

\* the regex class \w on the characters of the model
IsWordChar(c) ==
    \/ \E i \in 1..26 : c = LowerCase[i] \/ c = UpperCase[i]
    \/ c \in {"0", "1", "2", "3", "4", "5", "6", "7", "8", "9", "_"}

\* the regex assertion \b between t[p] and t[p+1], for p in 0..Len(t)
WordBoundary(t, p) ==
    (p >= 1 /\ IsWordChar(t[p])) # (p < Len(t) /\ IsWordChar(t[p + 1]))

\* re.search(r"\b(a1|a2|...)\b", t) finds a match
SearchWords(alts, t) ==
    \E a \in alts :
        \E i \in 1..(Len(t) - Len(a) + 1) :
            /\ SubSeq(t, i, i + Len(a) - 1) = a
            /\ WordBoundary(t, i - 1)
            /\ WordBoundary(t, i + Len(a) - 1)

\* mutant: the IC / Staff keywords are tested before the others
bucket_seniority_ic_first(title) ==
    IF title.t # "str" \/ Strip(title.s) = <<>> THEN OtherUnknown
    ELSE LET t == Lower(title.s)
         IN  IF SearchWords(kw_ic_staff, t) THEN "IC / Staff"
             ELSE IF SearchWords(kw_c_level, t) THEN "C-Level"
             ELSE IF SearchWords(kw_evp_svp, t) THEN "EVP / SVP"
             ELSE IF SearchWords(kw_vp, t) THEN "VP"
             ELSE IF SearchWords(kw_director_head, t) THEN "Director / Head"
             ELSE IF SearchWords(kw_manager, t) THEN "Manager"
             ELSE OtherUnknown

bucket_seniority(title) ==
    IF title.t # "str" \/ Strip(title.s) = <<>> THEN OtherUnknown
    ELSE LET t == Lower(title.s)
         IN  IF SearchWords(kw_c_level, t) THEN "C-Level"
             ELSE IF SearchWords(kw_evp_svp, t) THEN "EVP / SVP"
             ELSE IF SearchWords(kw_vp, t) THEN "VP"
             ELSE IF SearchWords(kw_director_head, t) THEN "Director / Head"
             ELSE IF SearchWords(kw_manager, t) THEN "Manager"
             ELSE IF SearchWords(kw_ic_staff, t) THEN "IC / Staff"
             ELSE OtherUnknown

-----------------------------------------------------------------------------
(* Specification SpecSeniority: bucket_seniority on titles made of up to *)
(* MaxTitleWords words, and on missing and blank titles                  *)

TitleWords ==
    {<<"V", "P">>,
     <<"o", "f">>,
     <<"E", "n", "g", "i", "n", "e", "e", "r", "i", "n", "g">>,
     <<"e", "n", "g", "i", "n", "e", "e", "r">>,
     <<"v", "i", "c", "e">>,
     <<"p", "r", "e", "s", "i", "d", "e", "n", "t">>,
     <<"s", "e", "n", "i", "o", "r">>,
     <<"e", "x", "e", "c", "u", "t", "i", "v", "e">>,
     <<"c", "h", "i", "e", "f">>,
     <<"s", "t", "a", "f", "f">>,
     <<"m", "a", "n", "a", "g", "e", "r">>}

str_VP_of_Engineering == <<"V", "P", " ", "o", "f", " ", "E", "n", "g", "i", "n", "e", "e", "r", "i", "n", "g">>

RECURSIVE JoinWords(_)
JoinWords(ws) ==
    IF ws = <<>> THEN <<>>
    ELSE IF Len(ws) = 1 THEN ws[1]
    ELSE ws[1] \o <<" ">> \o JoinWords(Tail(ws))

TitleInputs ==
    {StrCell(JoinWords(ws)) : ws \in SeqsUpTo(TitleWords, MaxTitleWords)}
        \cup {StrCell(<<" ", " ">>), NaNCell, NoneCell}

other_idle_seniority ==
    /\ pc = "off" /\ opps_file = Idle /\ roles_file = Idle /\ opps = Idle
    /\ roles = Idle /\ ui = Idle /\ masks = Idle /\ metrics = Idle
    /\ sim_call = Idle /\ load_call = Idle /\ clean_call = Idle
    /\ normalize_call = Idle /\ wilson_call = Idle

InitSeniority ==
    /\ other_idle_seniority
    /\ \E c \in TitleInputs :
          seniority_call = [st |-> "input", title |-> c, bucket |-> "none"]

CallBucketSeniority ==
    /\ seniority_call.st = "input"
    /\ seniority_call' = [seniority_call EXCEPT
                             !.st = "returned",
                             !.bucket = bucket_seniority(seniority_call.title)]
    /\ UNCHANGED <<pipeline_vars, normalize_call, wilson_call, sim_call, load_call, clean_call>>

NextSeniority == CallBucketSeniority

SpecSeniority == InitSeniority /\ [][NextSeniority]_vars

\* C8: bucket_seniority returns the first class, in the order C-Level,
\* EVP / SVP, VP, Director / Head, Manager, IC / Staff, whose keyword pattern
\* matches the lower-cased title, and Other / Unknown when none matches or the
\* title is empty or not a string; "VP of Engineering" gives VP.
C8_FirstMatchingClass ==
    seniority_call.st = "returned" =>
        LET title == seniority_call.title
            matching == IF title.t = "str"
                        THEN {k \in 1..6 :
                                 SearchWords(SeniorityPatterns[k], Lower(title.s))}
                        ELSE {}
        IN  /\ (title.t # "str" \/ Strip(title.s) = <<>> \/ matching = {})
                  => seniority_call.bucket = OtherUnknown
            /\ (title.t = "str" /\ Strip(title.s) # <<>> /\ matching # {})
                  => \E k \in matching :
                        /\ \A j \in matching : k <= j
                        /\ seniority_call.bucket = SeniorityClasses[k]
            /\ title = StrCell(str_VP_of_Engineering)
                  => seniority_call.bucket = "VP"

\* C8 witness: the title "VP of Engineering" has been bucketed.
C8_Witness ==
    /\ seniority_call.st = "returned"
    /\ seniority_call.title = StrCell(str_VP_of_Engineering)
    /\ seniority_call.bucket = "VP"

-----------------------------------------------------------------------------
(* normalize_and_standardize_columns, src/app.py:54-92 *)

\* the canonical column names, lines 62-88
col_Opportunity_ID == <<"O", "p", "p", "o", "r", "t", "u", "n", "i", "t", "y", " ", "I", "D">>
col_Opportunity_Name == <<"O", "p", "p", "o", "r", "t", "u", "n", "i", "t", "y", " ", "N", "a", "m", "e">>
col_Account_ID == <<"A", "c", "c", "o", "u", "n", "t", " ", "I", "D">>
col_Amount == <<"A", "m", "o", "u", "n", "t">>
col_Type == <<"T", "y", "p", "e">>
col_Stage == <<"S", "t", "a", "g", "e">>
col_Created_Date == <<"C", "r", "e", "a", "t", "e", "d", " ", "D", "a", "t", "e">>
col_Close_Date == <<"C", "l", "o", "s", "e", " ", "D", "a", "t", "e">>
col_Opportunity_Owner == <<"O", "p", "p", "o", "r", "t", "u", "n", "i", "t", "y", " ", "O", "w", "n", "e", "r">>
col_Contact_ID == <<"C", "o", "n", "t", "a", "c", "t", " ", "I", "D">>
col_Title == <<"T", "i", "t", "l", "e">>
col_Contact_Role == <<"C", "o", "n", "t", "a", "c", "t", " ", "R", "o", "l", "e">>
col_Primary == <<"P", "r", "i", "m", "a", "r", "y">>

\* the lower-cased, trimmed header spellings the normalizer tests for
norm_opportunity_id == <<"o", "p", "p", "o", "r", "t", "u", "n", "i", "t", "y", " ", "i", "d">>
norm_opportunity_name == <<"o", "p", "p", "o", "r", "t", "u", "n", "i", "t", "y", " ", "n", "a", "m", "e">>
norm_account_id == <<"a", "c", "c", "o", "u", "n", "t", " ", "i", "d">>
norm_amount == <<"a", "m", "o", "u", "n", "t">>
norm_type == <<"t", "y", "p", "e">>
norm_stage == <<"s", "t", "a", "g", "e">>
norm_created_date == <<"c", "r", "e", "a", "t", "e", "d", " ", "d", "a", "t", "e">>
norm_opportunity_created_date == <<"o", "p", "p", "o", "r", "t", "u", "n", "i", "t", "y", " ", "c", "r", "e", "a", "t", "e", "d", " ", "d", "a", "t", "e">>
norm_opportunity_created == <<"o", "p", "p", "o", "r", "t", "u", "n", "i", "t", "y", " ", "c", "r", "e", "a", "t", "e", "d">>
norm_closed_date == <<"c", "l", "o", "s", "e", "d", " ", "d", "a", "t", "e">>
norm_close_date == <<"c", "l", "o", "s", "e", " ", "d", "a", "t", "e">>
norm_opportunity_close_date == <<"o", "p", "p", "o", "r", "t", "u", "n", "i", "t", "y", " ", "c", "l", "o", "s", "e", " ", "d", "a", "t", "e">>
norm_opportunity_closed_date == <<"o", "p", "p", "o", "r", "t", "u", "n", "i", "t", "y", " ", "c", "l", "o", "s", "e", "d", " ", "d", "a", "t", "e">>
norm_opportunity_owner == <<"o", "p", "p", "o", "r", "t", "u", "n", "i", "t", "y", " ", "o", "w", "n", "e", "r">>
norm_owner == <<"o", "w", "n", "e", "r">>
norm_owner_name == <<"o", "w", "n", "e", "r", " ", "n", "a", "m", "e">>
norm_opportunity_owner_name == <<"o", "p", "p", "o", "r", "t", "u", "n", "i", "t", "y", " ", "o", "w", "n", "e", "r", " ", "n", "a", "m", "e">>
norm_contact_id == <<"c", "o", "n", "t", "a", "c", "t", " ", "i", "d">>
norm_title == <<"t", "i", "t", "l", "e">>
norm_contact_role == <<"c", "o", "n", "t", "a", "c", "t", " ", "r", "o", "l", "e">>
norm_role == <<"r", "o", "l", "e">>
norm_primary == <<"p", "r", "i", "m", "a", "r", "y">>
norm_is_primary == <<"i", "s", " ", "p", "r", "i", "m", "a", "r", "y">>


\* the if / elif chain of lines 62-90 for a column col with norm given
col_map_entry(col, norm, is_roles) ==
    IF norm = norm_opportunity_id THEN col_Opportunity_ID
    ELSE IF norm = norm_opportunity_name THEN col_Opportunity_Name
    ELSE IF norm = norm_account_id THEN col_Account_ID
    ELSE IF norm = norm_amount THEN col_Amount
    ELSE IF norm = norm_type THEN col_Type
    ELSE IF norm = norm_stage THEN col_Stage
    ELSE IF norm \in {norm_created_date, norm_opportunity_created_date,
                      norm_opportunity_created}
         THEN col_Created_Date
    ELSE IF norm \in {norm_closed_date, norm_close_date,
                      norm_opportunity_close_date,
                      norm_opportunity_closed_date}
         THEN col_Close_Date
    ELSE IF norm \in {norm_opportunity_owner, norm_owner, norm_owner_name,
                      norm_opportunity_owner_name}
         THEN col_Opportunity_Owner
    ELSE IF is_roles /\ Contains(norm_contact_id, norm) THEN col_Contact_ID
    ELSE IF is_roles /\ norm = norm_title THEN col_Title
    ELSE IF is_roles /\ (Contains(norm_contact_role, norm) \/ norm = norm_role)
         THEN col_Contact_Role
    ELSE IF is_roles /\ (Contains(norm_primary, norm)
                            \/ Contains(norm_is_primary, norm))
         THEN col_Primary
    ELSE col

\* one iteration of the loop of lines 59-90: norm = col.strip().lower(), then
\* col_map[col]
normalize_column(col, is_roles) ==
    col_map_entry(col, Lower(Strip(col)), is_roles)

\* df.rename(columns=col_map): the column names of the returned table
normalize_and_standardize_columns(headers, is_roles) ==
    [i \in 1..Len(headers) |-> normalize_column(headers[i], is_roles)]

\* lines 485-489
required_opps ==
    <<col_Opportunity_ID, col_Opportunity_Name, col_Account_ID, col_Amount,
      col_Type, col_Stage, col_Created_Date, col_Close_Date,
      col_Opportunity_Owner>>
required_roles == <<col_Opportunity_ID, col_Contact_ID>>

InColumns(c, columns) == \E i \in 1..Len(columns) : columns[i] = c

\* [c for c in required if c not in df.columns], lines 491-492
missing_columns(required, columns) ==
    SelectSeq(required, LAMBDA c : ~InColumns(c, columns))

-----------------------------------------------------------------------------
(* wilson_ci, src/app.py:149-157 *)

\* z=1.96
z_default == <<49, 25>>

\* the resolution at which a square root that is not rational is bracketed
SqrtScale == 100

\* the integer square root of a natural number below 2^31, by bisection
RECURSIVE ISqrtIn(_, _, _)
ISqrtIn(v, lo, hi) ==
    IF lo = hi THEN lo
    ELSE LET mid == (lo + hi + 1) \div 2
         IN  IF mid * mid <= v THEN ISqrtIn(v, mid, hi)
             ELSE ISqrtIn(v, lo, mid - 1)
ISqrt(v) == ISqrtIn(v, 0, IF v < 46340 THEN v ELSE 46340)

\* x ** 0.5 for a fraction x >= 0: the root itself when x is the square of a
\* fraction, otherwise the two neighbours of the root on the grid of
\* 1/SqrtScale
Pow05Outcomes(x) ==
    LET rn == ISqrt(x[1])
        rd == ISqrt(x[2])
        r == ISqrt((x[1] * (SqrtScale * SqrtScale)) \div x[2])
    IN  IF rn * rn = x[1] /\ rd * rd = x[2] THEN {Rat(rn, rd)}
        ELSE {Rat(r, SqrtScale), Rat(r + 1, SqrtScale)}

\* line 153
wilson_p(k, n) == Rat(k, n)

\* mutant: the denominator is 1 - z**2 / n
wilson_denom_minus(n) ==
    RSub(ROne, RDiv(RMul(z_default, z_default), Int2R(n)))

\* line 154
wilson_denom(n) == RAdd(ROne, RDiv(RMul(z_default, z_default), Int2R(n)))

\* mutant: the centre is p / denom, without the z**2/(2*n) term
wilson_center_plain(k, n) == RDiv(wilson_p(k, n), wilson_denom(n))

\* line 155
wilson_center(k, n) ==
    RDiv(RAdd(wilson_p(k, n),
              RDiv(RMul(z_default, z_default), Int2R(2 * n))),
         wilson_denom(n))

\* line 156, the operand of ** 0.5
wilson_radicand(k, n) ==
    RAdd(RDiv(RMul(wilson_p(k, n), RSub(ROne, wilson_p(k, n))), Int2R(n)),
         RDiv(RMul(z_default, z_default), Int2R(4 * n * n)))

\* line 156, given the value of the square root
wilson_margin(n, root) == RDiv(RMul(z_default, root), wilson_denom(n))

\* lines 149-157, given the value of the square root
wilson_ci(k, n, root) ==
    IF n = 0 THEN <<RZero, RZero>>
    ELSE <<RMax(RZero, RSub(wilson_center(k, n), wilson_margin(n, root))),
           RMin(ROne, RAdd(wilson_center(k, n), wilson_margin(n, root)))>>

-----------------------------------------------------------------------------
(* Specification SpecWilson: wilson_ci(k, n) for 0 <= k <= n <= MaxTrials *)

MaxTrials == 10

other_idle_wilson ==
    /\ pc = "off" /\ opps_file = Idle /\ roles_file = Idle /\ opps = Idle
    /\ roles = Idle /\ ui = Idle /\ masks = Idle /\ metrics = Idle
    /\ load_call = Idle /\ seniority_call = Idle /\ clean_call = Idle
    /\ sim_call = Idle /\ normalize_call = Idle

InitWilson ==
    /\ other_idle_wilson
    /\ \E n \in 0..MaxTrials : \E k \in 0..n :
          wilson_call = [st |-> "input", k |-> k, n |-> n,
                         root |-> RZero, out |-> <<RZero, RZero>>]

CallWilson ==
    /\ wilson_call.st = "input"
    /\ \E root \in (IF wilson_call.n = 0 THEN {RZero}
                    ELSE Pow05Outcomes(wilson_radicand(wilson_call.k,
                                                       wilson_call.n))) :
          wilson_call' =
              [wilson_call EXCEPT
                  !.st = "returned",
                  !.root = root,
                  !.out = wilson_ci(wilson_call.k, wilson_call.n, root)]
    /\ UNCHANGED <<pipeline_vars, clean_call, load_call, seniority_call,
                   sim_call, normalize_call>>

NextWilson == CallWilson

SpecWilson == InitWilson /\ [][NextWilson]_vars

\* C16: for all integers 0 <= k <= n, wilson_ci(k, n) returns (low, high) with
\* 0 <= low <= high <= 1, and (0, 0) when n = 0.
C16_IntervalWithinUnit ==
    wilson_call.st = "returned" =>
        /\ RLe(RZero, wilson_call.out[1])
        /\ RLe(wilson_call.out[1], wilson_call.out[2])
        /\ RLe(wilson_call.out[2], ROne)
        /\ wilson_call.n = 0 => wilson_call.out = <<RZero, RZero>>

\* C16 witness: a call with 0 < k < n, where the square root is not rational,
\* returning a proper interval inside (0, 1).
C16_Witness ==
    /\ wilson_call.st = "returned"
    /\ wilson_call.k = 1 /\ wilson_call.n = 3
    /\ RLt(RZero, wilson_call.out[1])
    /\ RLt(wilson_call.out[1], wilson_call.out[2])
    /\ RLt(wilson_call.out[2], ROne)

\* C17: for k = n (all wins) with n >= 1, the upper bound returned by
\* wilson_ci(k, n) is strictly less than 1.
C17_AllWinsUpperBelowOne ==
    (wilson_call.st = "returned" /\ wilson_call.n >= 1
        /\ wilson_call.k = wilson_call.n)
    => RLt(wilson_call.out[2], ROne)

\* C17 amended: for k = n with n >= 1 the upper bound is 1 and the lower
\* bound is n / (n + z**2), which is above 0 and strictly less than 1.
C17_AllWinsUpperIsOne ==
    (wilson_call.st = "returned" /\ wilson_call.n >= 1
        /\ wilson_call.k = wilson_call.n)
    => /\ wilson_call.out[2] = ROne
       /\ wilson_call.out[1] =
             RDiv(Int2R(wilson_call.n),
                  RAdd(Int2R(wilson_call.n), RMul(z_default, z_default)))
       /\ RLt(RZero, wilson_call.out[1])
       /\ RLt(wilson_call.out[1], ROne)

\* C17 witness: wilson_ci(1, 1) has returned.
C17_Witness ==
    /\ wilson_call.st = "returned"
    /\ wilson_call.k = 1 /\ wilson_call.n = 1
    /\ wilson_call.out[2] = ROne

-----------------------------------------------------------------------------
(* Specification SpecNormalize: normalize_and_standardize_columns on a header *)
(* row of distinct spellings, for either kind of table                        *)

MaxHeaders == 3

hdr_opportunity_id_padded == <<" ", "o", "p", "p", "o", "r", "t", "u", "n", "i", "t", "y", " ", "i", "d", " ">>
hdr_OWNER == <<"O", "W", "N", "E", "R">>
hdr_Opportunity_Close_Date == <<"O", "p", "p", "o", "r", "t", "u", "n", "i", "t", "y", " ", "C", "l", "o", "s", "e", " ", "D", "a", "t", "e">>
hdr_Stage_Name == <<"S", "t", "a", "g", "e", " ", "N", "a", "m", "e">>
hdr_role == <<"r", "o", "l", "e">>
hdr_Is_Primary == <<"I", "s", " ", "P", "r", "i", "m", "a", "r", "y">>
hdr_Primary_Campaign == <<"P", "r", "i", "m", "a", "r", "y", " ", "C", "a", "m", "p", "a", "i", "g", "n">>

HeaderSpellings ==
    {col_Opportunity_ID, hdr_opportunity_id_padded, hdr_OWNER,
     hdr_Opportunity_Close_Date, hdr_Stage_Name, col_Contact_ID, col_Title,
     hdr_role, hdr_Is_Primary, hdr_Primary_Campaign}

\* header rows: pandas gives the columns of a table distinct names
HeaderRows ==
    {h \in SeqsUpTo(HeaderSpellings, MaxHeaders) :
        h # <<>> /\ \A i, j \in 1..Len(h) : i # j => h[i] # h[j]}

other_idle_normalize ==
    /\ pc = "off" /\ opps_file = Idle /\ roles_file = Idle /\ opps = Idle
    /\ roles = Idle /\ ui = Idle /\ masks = Idle /\ metrics = Idle
    /\ load_call = Idle /\ seniority_call = Idle /\ clean_call = Idle
    /\ sim_call = Idle /\ wilson_call = Idle

InitNormalize ==
    /\ other_idle_normalize
    /\ \E h \in HeaderRows, r \in BOOLEAN :
          normalize_call = [st |-> "input", columns |-> h, is_roles |-> r,
                            out |-> <<>>]

CallNormalize ==
    /\ normalize_call.st = "input"
    /\ normalize_call' =
          [normalize_call EXCEPT
              !.st = "returned",
              !.out = normalize_and_standardize_columns(
                          normalize_call.columns, normalize_call.is_roles)]
    /\ UNCHANGED <<pipeline_vars, clean_call, load_call, seniority_call,
                   sim_call, wilson_call>>

NextNormalize == CallNormalize

SpecNormalize == InitNormalize /\ [][NextNormalize]_vars

\* the synonym table: normalized spelling, canonical name; the last six rows
\* belong to the Contact Roles table
KnownSynonyms(is_roles) ==
    {<<norm_opportunity_id, col_Opportunity_ID>>,
     <<norm_opportunity_name, col_Opportunity_Name>>,
     <<norm_account_id, col_Account_ID>>,
     <<norm_amount, col_Amount>>,
     <<norm_type, col_Type>>,
     <<norm_stage, col_Stage>>,
     <<norm_created_date, col_Created_Date>>,
     <<norm_opportunity_created_date, col_Created_Date>>,
     <<norm_opportunity_created, col_Created_Date>>,
     <<norm_closed_date, col_Close_Date>>,
     <<norm_close_date, col_Close_Date>>,
     <<norm_opportunity_close_date, col_Close_Date>>,
     <<norm_opportunity_closed_date, col_Close_Date>>,
     <<norm_opportunity_owner, col_Opportunity_Owner>>,
     <<norm_owner, col_Opportunity_Owner>>,
     <<norm_owner_name, col_Opportunity_Owner>>,
     <<norm_opportunity_owner_name, col_Opportunity_Owner>>}
    \cup (IF is_roles
          THEN {<<norm_contact_id, col_Contact_ID>>,
                <<norm_title, col_Title>>,
                <<norm_contact_role, col_Contact_Role>>,
                <<norm_role, col_Contact_Role>>,
                <<norm_primary, col_Primary>>,
                <<norm_is_primary, col_Primary>>}
          ELSE {})

\* C14: every header that, lower-cased and trimmed, is a known synonym is
\* renamed to its canonical name, whatever its case and position; every other
\* column keeps its original name; no column is dropped.
C14_SynonymsMappedOthersKept ==
    normalize_call.st = "returned" =>
        /\ Len(normalize_call.out) = Len(normalize_call.columns)
        /\ \A i \in 1..Len(normalize_call.columns) :
              LET norm == Lower(Strip(normalize_call.columns[i]))
                  syn == {e \in KnownSynonyms(normalize_call.is_roles) :
                             e[1] = norm}
              IN  IF syn # {}
                  THEN \E e \in syn : normalize_call.out[i] = e[2]
                  ELSE normalize_call.out[i] = normalize_call.columns[i]

-----------------------------------------------------------------------------
(* The uploaded files of specification Spec *)

\* header rows of uploaded Opportunities files
OppHeadersExport ==
    <<<<"O", "p", "p", "o", "r", "t", "u", "n", "i", "t", "y", " ", "I", "D">>,
      <<"O", "p", "p", "o", "r", "t", "u", "n", "i", "t", "y", " ", "N", "a", "m", "e">>,
      <<"A", "c", "c", "o", "u", "n", "t", " ", "I", "D">>,
      <<"A", "m", "o", "u", "n", "t">>,
      <<"T", "y", "p", "e">>,
      <<"S", "t", "a", "g", "e">>,
      <<"C", "r", "e", "a", "t", "e", "d", " ", "D", "a", "t", "e">>,
      <<"C", "l", "o", "s", "e", "d", " ", "D", "a", "t", "e">>,
      <<"O", "p", "p", "o", "r", "t", "u", "n", "i", "t", "y", " ", "O", "w", "n", "e", "r">>>>

OppHeadersRespelled ==
    <<<<" ", "o", "p", "p", "o", "r", "t", "u", "n", "i", "t", "y", " ", "i", "d">>,
      <<"O", "P", "P", "O", "R", "T", "U", "N", "I", "T", "Y", " ", "N", "A", "M", "E">>,
      <<"A", "c", "c", "o", "u", "n", "t", " ", "I", "d">>,
      <<"a", "m", "o", "u", "n", "t", " ">>,
      <<"T", "Y", "P", "E">>,
      <<"s", "t", "a", "g", "e">>,
      <<"O", "p", "p", "o", "r", "t", "u", "n", "i", "t", "y", " ", "C", "r", "e", "a", "t", "e", "d">>,
      <<"O", "p", "p", "o", "r", "t", "u", "n", "i", "t", "y", " ", "C", "l", "o", "s", "e", " ", "D", "a", "t", "e">>,
      <<"O", "w", "n", "e", "r">>>>

OppHeadersNoStage ==
    <<<<"O", "p", "p", "o", "r", "t", "u", "n", "i", "t", "y", " ", "I", "D">>,
      <<"O", "p", "p", "o", "r", "t", "u", "n", "i", "t", "y", " ", "N", "a", "m", "e">>,
      <<"A", "c", "c", "o", "u", "n", "t", " ", "I", "D">>,
      <<"A", "m", "o", "u", "n", "t", " ", "(", "U", "S", "D", ")">>,
      <<"T", "y", "p", "e">>,
      <<"S", "t", "a", "g", "e", " ", "N", "a", "m", "e">>,
      <<"C", "r", "e", "a", "t", "e", "d", " ", "D", "a", "t", "e">>,
      <<"C", "l", "o", "s", "e", "d", " ", "D", "a", "t", "e">>,
      <<"O", "p", "p", "o", "r", "t", "u", "n", "i", "t", "y", " ", "O", "w", "n", "e", "r">>>>

\* header rows of uploaded Contact Roles files
RoleHeadersExport ==
    <<<<"O", "p", "p", "o", "r", "t", "u", "n", "i", "t", "y", " ", "I", "D">>,
      <<"C", "o", "n", "t", "a", "c", "t", " ", "I", "D">>,
      <<"T", "i", "t", "l", "e">>,
      <<"R", "o", "l", "e">>,
      <<"I", "s", " ", "P", "r", "i", "m", "a", "r", "y">>>>

RoleHeadersNoContact ==
    <<<<"O", "p", "p", "o", "r", "t", "u", "n", "i", "t", "y", " ", "I", "D">>,
      <<"C", "o", "n", "t", "a", "c", "t">>,
      <<"T", "i", "t", "l", "e">>>>

\* stage names of the Opportunities files
stage_Closed_Won == <<"C", "l", "o", "s", "e", "d", " ", "W", "o", "n">>
stage_Closed_Lost == <<"C", "l", "o", "s", "e", "d", " ", "L", "o", "s", "t">>
stage_Qualification == <<"Q", "u", "a", "l", "i", "f", "i", "c", "a", "t", "i", "o", "n">>
stage_Won_Back_Lost == <<"W", "o", "n", " ", "B", "a", "c", "k", " ", "L", "o", "s", "t">>
str_won == <<"w", "o", "n">>
str_lost == <<"l", "o", "s", "t">>

StagePool == {stage_Closed_Won, stage_Closed_Lost, stage_Qualification,
              stage_Won_Back_Lost}

NumCell(n) == [t |-> "num", s |-> <<>>, n |-> n]

\* Amount of the i-th opportunity row
Amounts == <<1000, 500, 2000, 750, 250>>

\* the ID cell of entity n in a column pandas read as text or as float64
IdCell(fmt, n) ==
    IF n = 0 THEN NaNCell
    ELSE IF fmt = "float" THEN FloatCell(n)
    ELSE StrCell(<<Digit[n]>>)

\* texts of the Created Date and Close Date columns
date_texts_created ==
    <<<<"2", "0", "2", "3", "-", "0", "1", "-", "0", "9">>, <<"2", "0", "2", "3", "-", "0", "1", "-", "1", "6">>,
      <<"2", "0", "2", "3", "-", "0", "1", "-", "2", "3">>, <<"2", "0", "2", "3", "-", "0", "1", "-", "3", "0">>,
      <<"2", "0", "2", "3", "-", "0", "2", "-", "0", "6">>>>
date_texts_close ==
    <<<<"2", "0", "2", "3", "-", "0", "2", "-", "0", "8">>, <<"2", "0", "2", "3", "-", "0", "3", "-", "1", "7">>,
      <<"2", "0", "2", "3", "-", "0", "3", "-", "2", "4">>, <<"2", "0", "2", "3", "-", "0", "5", "-", "3", "0">>,
      <<"2", "0", "2", "3", "-", "0", "6", "-", "0", "6">>>>
\* a text pd.to_datetime cannot parse
str_TBD == <<"T", "B", "D">>

DecimalDigits == <<"0", "1", "2", "3", "4", "5", "6", "7", "8", "9">>
DigitValue ==
    [c \in {DecimalDigits[n] : n \in 1..10} |->
        (CHOOSE n \in 1..10 : DecimalDigits[n] = c) - 1]
DaysBeforeMonth == <<0, 31, 59, 90, 120, 151, 181, 212, 243, 273, 304, 334>>
DaysInMonth == <<31, 28, 31, 30, 31, 30, 31, 31, 30, 31, 30, 31>>

\* a missing timestamp, pd.NaT
NaT == [nat |-> TRUE, day |-> 0]

\* pd.to_datetime on a text YYYY-MM-DD of a common year: the timestamp, as the
\* number of days since 2022-12-31; it raises on a text that is not a date
IsDateText(s) ==
    /\ Len(s) = 10
    /\ s[5] = "-" /\ s[8] = "-"
    /\ \A i \in {1, 2, 3, 4, 6, 7, 9, 10} : s[i] \in DOMAIN DigitValue
    /\ LET m == 10 * DigitValue[s[6]] + DigitValue[s[7]]
           d == 10 * DigitValue[s[9]] + DigitValue[s[10]]
       IN  m \in 1..12 /\ d >= 1 /\ d <= DaysInMonth[m]

to_datetime_day(s) ==
    LET y == 1000 * DigitValue[s[1]] + 100 * DigitValue[s[2]]
                 + 10 * DigitValue[s[3]] + DigitValue[s[4]]
        m == 10 * DigitValue[s[6]] + DigitValue[s[7]]
        d == 10 * DigitValue[s[9]] + DigitValue[s[10]]
    IN  (y - 2023) * 365 + DaysBeforeMonth[m] + d

\* lines 95-99: pd.to_datetime(x), pd.NaT when it raises; a missing cell
\* converts to NaT
parse_date(c) ==
    IF c.t = "str" /\ IsDateText(c.s)
    THEN [nat |-> FALSE, day |-> to_datetime_day(c.s)]
    ELSE NaT

OppRow(fmt, i, stage) ==
    [id |-> IdCell(fmt, i), Amount |-> NumCell(Amounts[i]),
     Type |-> NaNCell, Stage |-> StrCell(stage),
     Created |-> StrCell(date_texts_created[i]),
     Close |-> StrCell(date_texts_close[i])]

\* the stages a row may carry: the stage that names both outcomes occurs on
\* the first row only
RowStages(i) == IF i = 1 THEN StagePool ELSE StagePool \ {stage_Won_Back_Lost}

\* opportunity rows 1..n with IDs 1..n and stages of the pool
OppRowChoices ==
    UNION {{[i \in 1..n |-> OppRow("str", i, st[i])] :
               st \in {f \in [1..n -> StagePool] : \A i \in 1..n : f[i] \in RowStages(i)}}
              : n \in 0..MaxOpps}

\* (opportunity, contact) pairs of the Contact Roles rows; opportunity 0 is a
\* row whose Opportunity ID cell is missing
RolePool == <<<<1, "A">>, <<1, "B">>, <<2, "C">>, <<3, "A">>, <<0, "B">>>>

RoleRow(fmt, pair) ==
    [opp |-> IdCell(fmt, pair[1]), contact |-> StrCell(<<pair[2]>>)]

RECURSIVE PickRoles(_, _, _)
PickRoles(fmt, picked, k) ==
    IF k > Len(RolePool) THEN <<>>
    ELSE (IF k \in picked THEN <<RoleRow(fmt, RolePool[k])>> ELSE <<>>)
            \o PickRoles(fmt, picked, k + 1)

\* the rows of a Contact Roles file: up to MaxRoles pairs of the pool with the
\* ID column read as text, or pairs of the scenario with the ID column read
\* as float64
RoleRowChoices ==
    {PickRoles("str", picked, 1) :
        picked \in {P \in SUBSET (1..Len(RolePool)) : Cardinality(P) <= MaxRoles}}
    \cup {PickRoles("float", picked, 1) : picked \in SUBSET (1..3)}

\* the rows of the end-to-end scenario
ScenarioOppRows ==
    <<OppRow("str", 1, stage_Closed_Won), OppRow("str", 2, stage_Closed_Lost),
      OppRow("str", 3, stage_Qualification)>>
ScenarioRoleRows == PickRoles("str", {1, 2, 3}, 1)

\* Opportunity rows with irregular cells: a repeated Opportunity ID, a missing
\* Opportunity ID, a missing Close Date, a Created Date that is not a date
IrregularCells ==
    <<[id |-> IdCell("str", 1), Created |-> StrCell(date_texts_created[1]),
       Close |-> StrCell(date_texts_close[1])],
      [id |-> IdCell("str", 1), Created |-> StrCell(date_texts_created[2]),
       Close |-> NaNCell],
      [id |-> IdCell("str", 1), Created |-> StrCell(str_TBD),
       Close |-> StrCell(date_texts_close[3])],
      [id |-> NaNCell, Created |-> StrCell(date_texts_created[4]),
       Close |-> StrCell(date_texts_close[4])]>>

IrregularStages == {stage_Closed_Won, stage_Closed_Lost, stage_Qualification}

IrregularOppRow(i, k, stage) ==
    [id |-> IrregularCells[k].id, Amount |-> NumCell(Amounts[i]),
     Type |-> NaNCell, Stage |-> StrCell(stage),
     Created |-> IrregularCells[k].Created, Close |-> IrregularCells[k].Close]

\* the rows of one such file share their stage
IrregularOppRowChoices ==
    UNION {{[i \in 1..n |-> IrregularOppRow(i, k[i], st)] :
               k \in [1..n -> 1..Len(IrregularCells)],
               st \in IrregularStages}
              : n \in 1..(MaxOpps - 1)}

\* Contact Roles rows with a missing Contact ID and a missing Opportunity ID
RoleRowsWithGaps ==
    <<RoleRow("str", <<1, "A">>),
      [opp |-> IdCell("str", 1), contact |-> NaNCell],
      RoleRow("str", <<0, "B">>)>>

\* Opportunity rows with varied Amount and Type cells: a negative Amount, a
\* missing Amount, an Amount that is not a number, a missing Type
str_New == <<"N", "e", "w">>
str_Renewal == <<"R", "e", "n", "e", "w", "a", "l">>
stage_Proposal == <<"P", "r", "o", "p", "o", "s", "a", "l">>
stage_Negotiation == <<"N", "e", "g", "o", "t", "i", "a", "t", "i", "o", "n">>

VariedCells ==
    <<[Amount |-> NumCell(1000), Type |-> StrCell(str_New)],
      [Amount |-> NumCell(-500), Type |-> NaNCell],
      [Amount |-> NaNCell, Type |-> StrCell(str_Renewal)],
      [Amount |-> StrCell(str_TBD), Type |-> StrCell(str_New)]>>

\* the stage of the i-th row of such a file
VariedStages ==
    <<stage_Closed_Won, stage_Proposal, stage_Negotiation, stage_Closed_Lost,
      stage_Qualification>>

VariedOppRow(i, k) ==
    [id |-> IdCell("str", i), Amount |-> VariedCells[k].Amount,
     Type |-> VariedCells[k].Type, Stage |-> StrCell(VariedStages[i]),
     Created |-> StrCell(date_texts_created[i]),
     Close |-> StrCell(date_texts_close[i])]

VariedOppRowChoices ==
    UNION {{[i \in 1..n |-> VariedOppRow(i, k[i])] :
               k \in [1..n -> 1..Len(VariedCells)]}
              : n \in 1..(MaxOpps - 1)}

\* Contact Roles rows with a repeated (opportunity, contact) pair
RoleRowsRepeated ==
    <<RoleRow("str", <<1, "A">>), RoleRow("str", <<1, "A">>),
      RoleRow("str", <<2, "C">>), RoleRow("str", <<2, "A">>),
      RoleRow("str", <<3, "A">>)>>

\* Contact IDs of the files with many contacts per opportunity
ContactLetters == <<"A", "B", "C", "D", "E", "F", "G", "H", "I", "J", "K", "L">>

\* Files given by the stage and the number of contacts of each opportunity:
\* three open and two won opportunities with up to five contacts, and a won
\* opportunity with twelve contacts
CoverageCases ==
    {[stages |-> <<stage_Qualification, stage_Qualification,
                   stage_Qualification, stage_Closed_Won, stage_Closed_Won>>,
      contacts |-> <<0, 5, 5, 2, 5>>],
     [stages |-> <<stage_Closed_Won, stage_Closed_Lost, stage_Qualification>>,
      contacts |-> <<12, 0, 1>>]}

CoverageOppRows(c) == [i \in 1..Len(c.stages) |-> OppRow("str", i, c.stages[i])]

RECURSIVE CoverageRoleRowsFrom(_, _)
CoverageRoleRowsFrom(contacts, i) ==
    IF i > Len(contacts) THEN <<>>
    ELSE [j \in 1..contacts[i] |-> RoleRow("str", <<i, ContactLetters[j]>>)]
            \o CoverageRoleRowsFrom(contacts, i + 1)
CoverageRoleRows(c) == CoverageRoleRowsFrom(c.contacts, 1)

CsvFile(bytes, headers, rows) ==
    [bytes |-> bytes, headers |-> headers, rows |-> rows]

\* a file of zero bytes
EmptyFile == CsvFile(<<>>, <<>>, <<>>)

OppFiles ==
    {CsvFile(<<"41">>, OppHeadersExport, rows) : rows \in OppRowChoices}
        \cup {CsvFile(<<"41">>, h, ScenarioOppRows) :
                 h \in {OppHeadersRespelled, OppHeadersNoStage}}
        \cup {EmptyFile}

RoleFiles ==
    {CsvFile(<<"41">>, RoleHeadersExport, rows) : rows \in RoleRowChoices}
        \cup {CsvFile(<<"41">>, RoleHeadersNoContact, ScenarioRoleRows), EmptyFile}

IrregularOppFiles ==
    {CsvFile(<<"41">>, OppHeadersExport, rows) : rows \in IrregularOppRowChoices}

IrregularRoleFiles ==
    {CsvFile(<<"41">>, RoleHeadersExport, rows) :
        rows \in {ScenarioRoleRows, RoleRowsWithGaps}}

VariedOppFiles ==
    {CsvFile(<<"41">>, OppHeadersExport, rows) : rows \in VariedOppRowChoices}

VariedRoleFiles ==
    {CsvFile(<<"41">>, RoleHeadersExport, rows) :
        rows \in {ScenarioRoleRows, RoleRowsRepeated}}

-----------------------------------------------------------------------------
(* The script run, src/app.py:477-997 *)

NoFrame == [columns |-> <<>>, rows |-> <<>>]

NoUi ==
    [error |-> [file |-> "none", columns |-> <<>>],
     exception |-> "none",
     warning |-> FALSE]

other_idle_run ==
    /\ clean_call = Idle /\ load_call = Idle /\ seniority_call = Idle
    /\ sim_call = Idle
    /\ normalize_call = Idle /\ wilson_call = Idle

\* both uploaders hold a file (line 477)
Init ==
    /\ other_idle_run
    /\ pc = "start"
    /\ \/ opps_file \in OppFiles /\ roles_file \in RoleFiles
       \/ opps_file \in IrregularOppFiles /\ roles_file \in IrregularRoleFiles
       \/ opps_file \in VariedOppFiles /\ roles_file \in VariedRoleFiles
       \/ \E c \in CoverageCases :
             /\ opps_file = CsvFile(<<"41">>, OppHeadersExport, CoverageOppRows(c))
             /\ roles_file = CsvFile(<<"41">>, RoleHeadersExport,
                                     CoverageRoleRows(c))
    /\ opps = NoFrame
    /\ roles = NoFrame
    /\ ui = NoUi
    /\ masks = Idle
    /\ metrics = Idle

\* lines 479-480: raw_opps = load_csv(opps_file); raw_roles = load_csv(roles_file)
LoadFiles ==
    /\ pc = "start"
    /\ LET ro == load_csv(opps_file.bytes)
           rr == load_csv(roles_file.bytes)
       IN  IF ~ro.ok
           THEN /\ pc' = "crashed"
                /\ ui' = [ui EXCEPT !.exception = ro.exc]
                /\ UNCHANGED <<opps, roles>>
           ELSE IF ~rr.ok
           THEN /\ pc' = "crashed"
                /\ ui' = [ui EXCEPT !.exception = rr.exc]
                /\ opps' = [columns |-> opps_file.headers, rows |-> opps_file.rows]
                /\ UNCHANGED roles
           ELSE /\ pc' = "loaded"
                /\ opps' = [columns |-> opps_file.headers, rows |-> opps_file.rows]
                /\ roles' = [columns |-> roles_file.headers,
                             rows |-> roles_file.rows]
                /\ UNCHANGED ui
    /\ UNCHANGED <<opps_file, roles_file, masks, metrics,
                   clean_call, load_call, seniority_call, sim_call,
          normalize_call, wilson_call>>

\* mutant: the Contact Roles branch shows its error but does not stop the run
ValidateColumnsRolesNoStop ==
    /\ pc = "loaded"
    /\ LET oc == normalize_and_standardize_columns(opps.columns, FALSE)
           rc == normalize_and_standardize_columns(roles.columns, TRUE)
           missing_opps == missing_columns(required_opps, oc)
           missing_roles == missing_columns(required_roles, rc)
       IN  /\ opps' = [opps EXCEPT !.columns = oc]
           /\ roles' = [roles EXCEPT !.columns = rc]
           /\ IF missing_opps # <<>>
              THEN /\ ui' = [ui EXCEPT !.error = [file |-> "Opportunities",
                                                  columns |-> missing_opps]]
                   /\ pc' = "halted"
              ELSE IF missing_roles # <<>>
              THEN /\ ui' = [ui EXCEPT !.error = [file |-> "Contact Roles",
                                                  columns |-> missing_roles]]
                   /\ pc' = "validated"
              ELSE /\ UNCHANGED ui
                   /\ pc' = "validated"
    /\ UNCHANGED <<opps_file, roles_file, masks, metrics,
                   clean_call, load_call, seniority_call, sim_call,
          normalize_call, wilson_call>>

\* lines 482-499: normalize both tables, then the required-columns check with
\* st.error and st.stop
ValidateColumns ==
    /\ pc = "loaded"
    /\ LET oc == normalize_and_standardize_columns(opps.columns, FALSE)
           rc == normalize_and_standardize_columns(roles.columns, TRUE)
           missing_opps == missing_columns(required_opps, oc)
           missing_roles == missing_columns(required_roles, rc)
       IN  /\ opps' = [opps EXCEPT !.columns = oc]
           /\ roles' = [roles EXCEPT !.columns = rc]
           /\ IF missing_opps # <<>>
              THEN /\ ui' = [ui EXCEPT !.error = [file |-> "Opportunities",
                                                  columns |-> missing_opps]]
                   /\ pc' = "halted"
              ELSE IF missing_roles # <<>>
              THEN /\ ui' = [ui EXCEPT !.error = [file |-> "Contact Roles",
                                                  columns |-> missing_roles]]
                   /\ pc' = "halted"
              ELSE /\ UNCHANGED ui
                   /\ pc' = "validated"
    /\ UNCHANGED <<opps_file, roles_file, masks, metrics,
                   clean_call, load_call, seniority_call, sim_call,
          normalize_call, wilson_call>>

\* pd.to_numeric(x, errors="coerce") then fillna(0), line 510
to_numeric_fillna0(c) == IF c.t = "num" THEN c.n ELSE 0

\* x.fillna("").astype(str), lines 513-514
fillna_str(c) == IF c.t \in {"nan", "none"} THEN <<>> ELSE astype_str(c)

\* mutant: the rows whose cleaned key is empty are kept
CleanAndCoerceKeepEmptyKeys ==
    /\ pc = "validated"
    /\ LET oclean == [i \in 1..Len(opps.rows) |->
                         [id |-> clean_id_series(opps.rows[i].id),
                          Amount |-> to_numeric_fillna0(opps.rows[i].Amount),
                          Type |-> fillna_str(opps.rows[i].Type),
                          Stage |-> fillna_str(opps.rows[i].Stage),
                          Created |-> parse_date(opps.rows[i].Created),
                          Close |-> parse_date(opps.rows[i].Close)]]
           rclean == [i \in 1..Len(roles.rows) |->
                         [opp |-> clean_id_series(roles.rows[i].opp),
                          contact |-> clean_id_series(roles.rows[i].contact)]]
       IN  /\ opps' = [opps EXCEPT
                          !.rows = oclean]
           /\ roles' = [roles EXCEPT
                           !.rows = rclean]
    /\ pc' = "cleaned"
    /\ UNCHANGED <<opps_file, roles_file, ui, masks, metrics,
                   clean_call, load_call, seniority_call, sim_call,
          normalize_call, wilson_call>>

\* lines 501-514: clean the IDs of both tables, drop the rows whose cleaned
\* key is empty, then coerce Amount, Type and Stage
CleanAndCoerce ==
    /\ pc = "validated"
    /\ LET oclean == [i \in 1..Len(opps.rows) |->
                         [id |-> clean_id_series(opps.rows[i].id),
                          Amount |-> to_numeric_fillna0(opps.rows[i].Amount),
                          Type |-> fillna_str(opps.rows[i].Type),
                          Stage |-> fillna_str(opps.rows[i].Stage),
                          Created |-> parse_date(opps.rows[i].Created),
                          Close |-> parse_date(opps.rows[i].Close)]]
           rclean == [i \in 1..Len(roles.rows) |->
                         [opp |-> clean_id_series(roles.rows[i].opp),
                          contact |-> clean_id_series(roles.rows[i].contact)]]
       IN  /\ opps' = [opps EXCEPT
                          !.rows = SelectSeq(oclean, LAMBDA r : r.id # <<>>)]
           /\ roles' = [roles EXCEPT
                           !.rows = SelectSeq(rclean,
                                       LAMBDA r : r.opp # <<>> /\ r.contact # <<>>)]
    /\ pc' = "cleaned"
    /\ UNCHANGED <<opps_file, roles_file, ui, masks, metrics,
                   clean_call, load_call, seniority_call, sim_call,
          normalize_call, wilson_call>>

\* the multiselect of lines 520-524 returns the default (every option) or
\* what the user has selected: nothing, or a single type
TypeSelections(all_types) == {all_types, {}} \cup {{t} : t \in all_types}

Range(f) == {f[i] : i \in DOMAIN f}

\* line 517: the types offered, every non-blank Type value
all_types_of(rows) ==
    {r.Type : r \in {x \in Range(rows) : Strip(x.Type) # <<>>}}

\* lines 527-528: if selected_types: opps = opps[opps["Type"].isin(selected_types)]
filter_by_type(rows, selected_types) ==
    IF selected_types # {}
    THEN SelectSeq(rows, LAMBDA r : r.Type \in selected_types)
    ELSE rows

\* mutant: no warning is shown when no Contact Roles row matches
FilterByTypeNoWarning ==
    /\ pc = "cleaned"
    /\ LET all_types == all_types_of(opps.rows)
       IN  \E selected_types \in TypeSelections(all_types) :
              LET kept == filter_by_type(opps.rows, selected_types)
                  filtered_opp_ids == {r.id : r \in Range(kept)}
                  rkept == SelectSeq(roles.rows,
                                     LAMBDA r : r.opp \in filtered_opp_ids)
              IN  /\ opps' = [opps EXCEPT !.rows = kept]
                  /\ roles' = [roles EXCEPT !.rows = rkept]
                  /\ UNCHANGED ui
    /\ pc' = "filtered"
    /\ UNCHANGED <<opps_file, roles_file, masks, metrics,
                   clean_call, load_call, seniority_call, sim_call,
          normalize_call, wilson_call>>

\* lines 516-541: the global type filter, then the role filter and its warning
FilterByType ==
    /\ pc = "cleaned"
    /\ LET all_types == all_types_of(opps.rows)
       IN  \E selected_types \in TypeSelections(all_types) :
              LET kept == filter_by_type(opps.rows, selected_types)
                  filtered_opp_ids == {r.id : r \in Range(kept)}
                  rkept == SelectSeq(roles.rows,
                                     LAMBDA r : r.opp \in filtered_opp_ids)
              IN  /\ opps' = [opps EXCEPT !.rows = kept]
                  /\ roles' = [roles EXCEPT !.rows = rkept]
                  /\ ui' = [ui EXCEPT !.warning = (rkept = <<>>)]
    /\ pc' = "filtered"
    /\ UNCHANGED <<opps_file, roles_file, masks, metrics,
                   clean_call, load_call, seniority_call, sim_call,
          normalize_call, wilson_call>>

\* lines 549-551
stage_values_of(rows) ==
    {r.Stage : r \in {x \in Range(rows) : Strip(x.Stage) # <<>>}}
suggested_won_of(stage_values) ==
    {st \in stage_values : Contains(str_won, Lower(st))}
suggested_lost_of(stage_values) ==
    {st \in stage_values : Contains(str_lost, Lower(st))}

\* lines 558-568: the options left for the next phase multiselect
remaining_of(stage_values, used) == stage_values \ used

\* The default Won and Lost stages with the stages left over selected as
\* Early, Mid or Late; the options of Mid are what Early has left, the options
\* of Late what Early and Mid have left
PhaseSelections(stage_values) ==
    LET won_stages == suggested_won_of(stage_values)
        lost_stages == suggested_lost_of(stage_values)
        remaining2 == remaining_of(stage_values, won_stages \cup lost_stages)
    IN  UNION {UNION {{[won |-> won_stages, lost |-> lost_stages,
                        early |-> early_stages, mid |-> mid_stages,
                        late |-> late_stages] :
                          late_stages \in
                              SUBSET remaining_of(remaining2,
                                                  early_stages \cup mid_stages)}
                        : mid_stages \in
                              SUBSET remaining_of(remaining2, early_stages)}
                 : early_stages \in SUBSET remaining2}

\* What the five multiselects of lines 555-570 return: the defaults (the
\* suggested Won and Lost stages, no phase stages), everything cleared, or a
\* single Won stage chosen by the user with the other boxes cleared.
StageSelections(stage_values) ==
    {[won |-> suggested_won_of(stage_values),
      lost |-> suggested_lost_of(stage_values),
      early |-> {}, mid |-> {}, late |-> {}],
     [won |-> {}, lost |-> {}, early |-> {}, mid |-> {}, late |-> {}]}
        \cup {[won |-> {st}, lost |-> {}, early |-> {}, mid |-> {}, late |-> {}]
                 : st \in stage_values}
        \cup PhaseSelections(stage_values)

\* stage.isin(stages) over the rows
isin_mask(rows, stages) == [i \in 1..Len(rows) |-> rows[i].Stage \in stages]

\* stage.str.contains(word, case=False, na=False) over the rows
contains_mask(rows, word) ==
    [i \in 1..Len(rows) |-> Contains(Lower(word), Lower(rows[i].Stage))]

\* lines 576 and 583
won_mask_of(rows, sel, user_mapped_any) ==
    IF user_mapped_any THEN isin_mask(rows, sel.won)
    ELSE contains_mask(rows, <<"W", "o", "n">>)

\* lines 577 and 584
lost_mask_of(rows, sel, user_mapped_any) ==
    IF user_mapped_any THEN isin_mask(rows, sel.lost)
    ELSE contains_mask(rows, <<"L", "o", "s", "t">>)

\* mutant: Open is everything that is not Won
open_mask_not_won(won_mask, lost_mask) ==
    [i \in 1..Len(won_mask) |-> ~won_mask[i]]

\* lines 581 and 585: ~(won_mask | lost_mask)
open_mask_of(won_mask, lost_mask) ==
    [i \in 1..Len(won_mask) |-> ~(won_mask[i] \/ lost_mask[i])]

\* lines 543-588: the stage mapping widgets and the masks
MapStages ==
    /\ pc = "filtered"
    /\ \E sel \in StageSelections(stage_values_of(opps.rows)) :
          LET user_mapped_any ==
                  \E x \in {sel.early, sel.mid, sel.late, sel.won, sel.lost} :
                      x # {}
              won_mask == won_mask_of(opps.rows, sel, user_mapped_any)
              lost_mask == lost_mask_of(opps.rows, sel, user_mapped_any)
              open_mask == open_mask_of(won_mask, lost_mask)
          IN  masks' = [st |-> "set",
                        sel |-> sel,
                        user_mapped_any |-> user_mapped_any,
                        won |-> won_mask,
                        lost |-> lost_mask,
                        open |-> open_mask,
                        early |-> IF user_mapped_any
                                  THEN isin_mask(opps.rows, sel.early)
                                  ELSE open_mask,
                        mid |-> IF user_mapped_any
                                THEN isin_mask(opps.rows, sel.mid)
                                ELSE open_mask,
                        late |-> IF user_mapped_any
                                 THEN isin_mask(opps.rows, sel.late)
                                 ELSE open_mask]
    /\ pc' = "mapped"
    /\ UNCHANGED <<opps_file, roles_file, opps, roles, ui, metrics,
                   clean_call, load_call, seniority_call, sim_call,
          normalize_call, wilson_call>>

RECURSIVE SumSeq(_)
SumSeq(q) == IF q = <<>> THEN 0 ELSE q[1] + SumSeq(Tail(q))

\* the rows of a frame selected by a boolean mask: df.loc[mask]
RECURSIVE LocFrom(_, _, _)
LocFrom(rows, mask, i) ==
    IF i > Len(rows) THEN <<>>
    ELSE (IF mask[i] THEN <<rows[i]>> ELSE <<>>) \o LocFrom(rows, mask, i + 1)
Loc(rows, mask) == LocFrom(rows, mask, 1)

\* df["Opportunity ID"].nunique()
nunique_id(rows) == Cardinality({r.id : r \in Range(rows)})

\* df["Amount"].sum()
sum_amount(rows) == SumSeq([i \in 1..Len(rows) |-> rows[i].Amount])

\* df["contact_count"].mean() if not df.empty else 0, lines 618-620
mean_contact_count(rows) ==
    IF rows = <<>> THEN RZero
    ELSE Rat(SumSeq([i \in 1..Len(rows) |-> rows[i].contact_count]), Len(rows))

\* mutant: the rows of each Opportunity ID are counted, not the distinct
\* Contact IDs
cr_counts_rows(role_rows) ==
    [id \in {r.opp : r \in Range(role_rows)} |->
        Len(SelectSeq(role_rows, LAMBDA x : x.opp = id))]

\* roles.groupby("Opportunity ID")["Contact ID"].nunique(), line 591
cr_counts_of(role_rows) ==
    [id \in {r.opp : r \in Range(role_rows)} |->
        Cardinality({r.contact : r \in {x \in Range(role_rows) : x.opp = id}})]

\* mutant: the merge matches no key, every count is filled with 0
with_contact_count_unmatched(opp_rows, cr_counts) ==
    [i \in 1..Len(opp_rows) |->
        [id |-> opp_rows[i].id, Amount |-> opp_rows[i].Amount,
         Type |-> opp_rows[i].Type, Stage |-> opp_rows[i].Stage,
         Created |-> opp_rows[i].Created, Close |-> opp_rows[i].Close,
         contact_count |-> 0]]

\* lines 592-593: the left merge on Opportunity ID, missing counts filled with 0
with_contact_count(opp_rows, cr_counts) ==
    [i \in 1..Len(opp_rows) |->
        [id |-> opp_rows[i].id, Amount |-> opp_rows[i].Amount,
         Type |-> opp_rows[i].Type, Stage |-> opp_rows[i].Stage,
         Created |-> opp_rows[i].Created, Close |-> opp_rows[i].Close,
         contact_count |-> IF opp_rows[i].id \in DOMAIN cr_counts
                           THEN cr_counts[opp_rows[i].id] ELSE 0]]

\* mutant: the ratio of Won to Lost instead of Won to closed
win_rate_won_to_lost(won_count, lost_count) ==
    IF lost_count > 0 THEN Rat(won_count, lost_count) ELSE RZero

\* line 616
win_rate_of(won_count, lost_count) ==
    IF won_count + lost_count > 0 THEN Rat(won_count, won_count + lost_count)
    ELSE RZero

\* pd.Timestamp.today().normalize(), line 642: the day of the run, 2023-06-30
today == 181

NoneValue == [t |-> "none"]
NaNValue == [t |-> "nan"]
NumValue(r) == [t |-> "num", v |-> r]

\* lines 629-632
days_diff(row) ==
    IF row.Created.nat \/ row.Close.nat THEN NoneValue
    ELSE NumValue(Int2R(row.Close.day - row.Created.day))

\* line 644: (today - Created Date).dt.days
age_days(row) ==
    IF row.Created.nat THEN NaNValue
    ELSE NumValue(Int2R(today - row.Created.day))

\* Series.dropna().mean(): NaN when nothing is left
dropna_mean(values) ==
    LET kept == SelectSeq(values, LAMBDA x : x.t = "num")
    IN  IF kept = <<>> THEN NaNValue
        ELSE NumValue(Rat(SumSeq([i \in 1..Len(kept) |-> kept[i].v[1]]),
                          Len(kept)))

\* lines 634-640: the column days_to_close exists only on a non-empty frame
avg_days_of(rows) ==
    IF rows = <<>> THEN NoneValue
    ELSE dropna_mean([i \in 1..Len(rows) |-> days_diff(rows[i])])

\* lines 643-645
avg_age_of(rows) ==
    IF rows = <<>> THEN NoneValue
    ELSE dropna_mean([i \in 1..Len(rows) |-> age_days(rows[i])])

\* lines 596-608: the basic splits; with_cr and one_cr are the rows whose ID is
\* in opps_with_cr_ids and in one_cr_ids
coverage_fields(rows, with_cr, one_cr) ==
    [total_opps |-> nunique_id(rows),
     total_pipeline |-> sum_amount(rows),
     opps_with_cr |-> nunique_id(with_cr),
     opps_without_cr |-> nunique_id(rows) - nunique_id(with_cr),
     pipeline_with_cr |-> sum_amount(with_cr),
     pipeline_without_cr |-> sum_amount(rows) - sum_amount(with_cr),
     opps_one_cr |-> nunique_id(one_cr),
     pipeline_one_cr |-> sum_amount(one_cr)]

\* lines 614-616
win_rate_fields(won_count, lost_count) ==
    [won_count |-> won_count,
     lost_count |-> lost_count,
     win_rate |-> win_rate_of(won_count, lost_count)]

\* lines 618-620 and 628-645
average_fields(open_opps, won_opps, lost_opps) ==
    [avg_cr_lost |-> mean_contact_count(lost_opps),
     avg_cr_won |-> mean_contact_count(won_opps),
     avg_cr_open |-> mean_contact_count(open_opps),
     avg_days_lost |-> avg_days_of(lost_opps),
     avg_days_won |-> avg_days_of(won_opps),
     avg_age_open |-> avg_age_of(open_opps)]

\* lines 610-645: the values computed from open_opps, won_opps and lost_opps
split_fields(open_opps, won_opps, lost_opps) ==
    win_rate_fields(nunique_id(won_opps), nunique_id(lost_opps))
        @@ average_fields(open_opps, won_opps, lost_opps)

\* lines 596-645 on the merged rows and the counts of line 591
metrics_of(rows, role_rows, cr_counts) ==
    [st |-> "computed"]
        @@ coverage_fields(
               rows,
               SelectSeq(rows, LAMBDA r : r.id \in {x.opp : x \in Range(role_rows)}),
               SelectSeq(rows, LAMBDA r : r.id \in {id \in DOMAIN cr_counts :
                                                       cr_counts[id] = 1}))
        @@ split_fields(Loc(rows, masks.open), Loc(rows, masks.won),
                        Loc(rows, masks.lost))

\* lines 590-645: contact counts, basic splits, win rate, averages and days
ComputeMetrics ==
    /\ pc = "mapped"
    /\ opps' = [opps EXCEPT
                   !.rows = with_contact_count(opps.rows,
                                               cr_counts_of(roles.rows))]
    /\ metrics' = metrics_of(opps'.rows, roles.rows, cr_counts_of(roles.rows))
    /\ pc' = "computed"
    /\ UNCHANGED <<opps_file, roles_file, roles, ui, masks,
                   clean_call, load_call, seniority_call, sim_call,
          normalize_call, wilson_call>>

\* Python round(x, 0): to the nearest integer, ties to the even one
RoundHalfEven(r) ==
    LET q == r[1] \div r[2]
        rem2 == 2 * (r[1] % r[2])
    IN  IF rem2 < r[2] THEN Int2R(q)
        ELSE IF rem2 > r[2] THEN Int2R(q + 1)
        ELSE IF q % 2 = 0 THEN Int2R(q) ELSE Int2R(q + 1)

\* line 814
gap_open_vs_won_of(avg_cr_won, avg_cr_open) ==
    IF avg_cr_won # RZero THEN RMax(RZero, RSub(avg_cr_won, avg_cr_open))
    ELSE RZero

\* lines 816-820, before the clamp
coverage_score_raw(pct_2plus_open, pct_zero_open, avg_cr_won, avg_cr_open) ==
    RAdd(RAdd(RMul(pct_2plus_open, Int2R(60)),
              RMul(RSub(ROne, pct_zero_open), Int2R(30))),
         RMul(RMax(RZero,
                   RSub(ROne,
                        RDiv(gap_open_vs_won_of(avg_cr_won, avg_cr_open),
                             RMax(avg_cr_won, ROne)))),
              Int2R(10)))

\* mutant: the zero-coverage share is subtracted as a penalty and the result is
\* not clamped
coverage_score_penalty_unclamped(pct_2plus_open, pct_zero_open, avg_cr_won, avg_cr_open) ==
    RoundHalfEven(
        RAdd(RSub(RMul(pct_2plus_open, Int2R(60)),
                  RMul(pct_zero_open, Int2R(30))),
             RMul(RMax(RZero,
                       RSub(ROne,
                            RDiv(gap_open_vs_won_of(avg_cr_won, avg_cr_open),
                                 RMax(avg_cr_won, ROne)))),
                  Int2R(10))))

\* lines 816-821: score = round(min(max(score, 0), 100), 0)
coverage_score(pct_2plus_open, pct_zero_open, avg_cr_won, avg_cr_open) ==
    RoundHalfEven(
        RMin(RMax(coverage_score_raw(pct_2plus_open, pct_zero_open,
                                     avg_cr_won, avg_cr_open),
                  RZero),
             Int2R(100)))

\* line 822
score_label_of(score) ==
    IF RLt(score, Int2R(40)) THEN "High risk"
    ELSE IF RLt(score, Int2R(70)) THEN "Needs improvement"
    ELSE "Healthy"

str_days == <<" ", "d", "a", "y", "s">>
str_0_days == <<"0", " ", "d", "a", "y", "s">>

\* str(n) for an integer n
RECURSIVE NatText(_)
NatText(n) ==
    IF n < 10 THEN <<DecimalDigits[n + 1]>>
    ELSE NatText(n \div 10) \o <<DecimalDigits[(n % 10) + 1]>>
IntText(n) == IF n < 0 THEN <<"-">> \o NatText(-n) ELSE NatText(n)

\* bool(x) of None, of a float NaN and of a number
truthy(x) == x.t = "nan" \/ (x.t = "num" /\ x.v # RZero)

\* f"{x:.0f}": nan for NaN, otherwise the digits of x rounded to an integer
format_0f(x) ==
    IF x.t = "nan" THEN str_nan
    ELSE IntText(RoundHalfEven(x.v)[1])

\* lines 882-886: f"{avg:.0f} days" if avg else "0 days"
days_text(avg) ==
    IF truthy(avg) THEN format_0f(avg) \o str_days ELSE str_0_days

\* the target slider of line 899 returns its default 2.0 or the value the
\* user has set
TargetChoices == {Rat(4, 2), Rat(10, 2)}

RECURSIVE RSumSeq(_)
RSumSeq(q) == IF q = <<>> THEN RZero ELSE RAdd(q[1], RSumSeq(Tail(q)))

\* lines 917-920
weight_for_contacts(n) ==
    IF n <= 0 THEN Rat(6, 10)
    ELSE IF n = 1 THEN Rat(8, 10)
    ELSE ROne

\* line 924
expected_open_wins_current_of(win_rate, open_pipeline) ==
    RMul(win_rate, Int2R(open_pipeline))

\* lines 922-926: (win_rate * coverage_weight * Amount).sum() over open_df
expected_open_wins_adj_of(open_df, win_rate) ==
    RSumSeq([i \in 1..Len(open_df) |->
                RMul(RMul(win_rate, weight_for_contacts(open_df[i].contact_count)),
                     Int2R(open_df[i].Amount))])

\* line 928
coverage_adj_win_rate_of(expected_open_wins_adj, open_pipeline) ==
    IF open_pipeline > 0 THEN RDiv(expected_open_wins_adj, Int2R(open_pipeline))
    ELSE RZero

\* line 929
forecast_gap_of(expected_open_wins_current, expected_open_wins_adj) ==
    RMax(RZero, RSub(expected_open_wins_current, expected_open_wins_adj))

\* Python round(x, 1)
RoundHalfEven1(r) == RDiv(RoundHalfEven(RMul(r, Int2R(10))), Int2R(10))

\* line 743: max(2.0, round(avg_cr_won * 0.6, 1)) if avg_cr_won else 2.0
default_mid_gate_of(avg_cr_won) ==
    IF avg_cr_won # RZero
    THEN RMax(Int2R(2), RoundHalfEven1(RMul(avg_cr_won, Rat(6, 10))))
    ELSE Int2R(2)

\* line 744: max(3.0, round(avg_cr_won * 0.85, 1)) if avg_cr_won else 3.0
default_late_gate_of(avg_cr_won) ==
    IF avg_cr_won # RZero
    THEN RMax(Int2R(3), RoundHalfEven1(RMul(avg_cr_won, Rat(85, 100))))
    ELSE Int2R(3)

\* st.slider(label, min_value, max_value, value, step) raises
\* StreamlitAPIException unless min_value <= value <= max_value
slider_accepts(min_value, max_value, value) ==
    RLe(min_value, value) /\ RLe(value, max_value)

\* What the three sliders of lines 746, 747 and 899 return in a run: their
\* defaults, or the values the user has set
SliderSettings(default_mid_gate, default_late_gate) ==
    {[target_contacts |-> t,
      mid_gate_target |-> IF t = Rat(4, 2) THEN default_mid_gate ELSE Rat(2, 2),
      late_gate_target |-> IF t = Rat(4, 2) THEN default_late_gate
                           ELSE Rat(3, 2)] : t \in TargetChoices}

\* mutant: an opportunity at the gate counts as below it
gate_findings_at_or_below(phase_df, gate_target) ==
    LET below_gate == SelectSeq(phase_df,
                          LAMBDA r : RLe(Int2R(r.contact_count), gate_target))
        below_cnt == nunique_id(below_gate)
        cnt == nunique_id(phase_df)
    IN  [below_cnt |-> below_cnt,
         cnt |-> cnt,
         below_pct |-> IF cnt > 0 THEN Rat(below_cnt, cnt) ELSE RZero,
         below_pipe |-> sum_amount(below_gate)]

\* lines 753-764: the rows of a phase below its gate
gate_findings(phase_df, gate_target) ==
    LET below_gate == SelectSeq(phase_df,
                          LAMBDA r : RLt(Int2R(r.contact_count), gate_target))
        below_cnt == nunique_id(below_gate)
        cnt == nunique_id(phase_df)
    IN  [below_cnt |-> below_cnt,
         cnt |-> cnt,
         below_pct |-> IF cnt > 0 THEN Rat(below_cnt, cnt) ELSE RZero,
         below_pipe |-> sum_amount(below_gate)]

\* line 656: opps.set_index("Opportunity ID")["Stage"].to_dict() keeps the
\* stage of the last row of each Opportunity ID; .get(opp_id, "")
stage_lookup_get(rows, opp_id) ==
    LET at == {i \in 1..Len(rows) : rows[i].id = opp_id}
    IN  IF at = {} THEN <<>>
        ELSE rows[CHOOSE i \in at : \A j \in at : j <= i].Stage

\* lines 658-671
stage_bucket_for_id(rows, sel, user_mapped_any, opp_id) ==
    LET s == stage_lookup_get(rows, opp_id)
    IN  IF user_mapped_any
        THEN IF s \in sel.won THEN "Won"
             ELSE IF s \in sel.lost THEN "Lost"
             ELSE IF s \in sel.late THEN "Late"
             ELSE IF s \in sel.mid THEN "Mid"
             ELSE IF s \in sel.early THEN "Early"
             ELSE "Open"
        ELSE IF Contains(str_won, Lower(s)) THEN "Won"
             ELSE IF Contains(str_lost, Lower(s)) THEN "Lost"
             ELSE "Open"

\* lines 995-997: "Open", then "Won" on won_mask, then "Lost" on lost_mask
stage_group_of(won_mask, lost_mask) ==
    [i \in 1..Len(won_mask) |->
        IF lost_mask[i] THEN "Lost" ELSE IF won_mask[i] THEN "Won" ELSE "Open"]

\* lines 797 and 800
open_pipeline_of(open_df) == IF open_df # <<>> THEN sum_amount(open_df) ELSE 0
open_opps_total_of(open_df) == IF open_df # <<>> THEN nunique_id(open_df) ELSE 0

\* line 812
pct_2plus_open_of(open_df, open_opps_total) ==
    IF open_opps_total > 0
    THEN Rat(nunique_id(SelectSeq(open_df, LAMBDA r : r.contact_count >= 2)),
             open_opps_total)
    ELSE RZero

\* line 813
pct_zero_open_of(open_df, open_opps_total) ==
    IF open_opps_total > 0
    THEN Rat(nunique_id(SelectSeq(open_df, LAMBDA r : r.contact_count = 0)),
             open_opps_total)
    ELSE RZero

\* lines 750-764: the findings of both gates
gate_fields(w, mid_df, late_df) ==
    [mid_gate_target |-> w.mid_gate_target,
     late_gate_target |-> w.late_gate_target,
     mid |-> gate_findings(mid_df, w.mid_gate_target),
     late |-> gate_findings(late_df, w.late_gate_target)]

\* lines 795-822: pipeline risk and the coverage score
score_fields(open_pipeline, open_opps_total, pct_2plus_open, pct_zero_open, score) ==
    [open_pipeline |-> open_pipeline,
     open_opps_total |-> open_opps_total,
     pct_2plus_open |-> pct_2plus_open,
     pct_zero_open |-> pct_zero_open,
     score |-> score,
     score_label |-> score_label_of(score)]

\* lines 881-886
days_fields ==
    [shown_days_won |-> days_text(metrics.avg_days_won),
     shown_days_lost |-> days_text(metrics.avg_days_lost),
     shown_age_open |-> days_text(metrics.avg_age_open)]

\* lines 899-903: the simulator
simulator_fields(target_contacts, enhanced_win_rate, open_pipeline) ==
    [target_contacts |-> target_contacts,
     enhanced_win_rate |-> enhanced_win_rate,
     incremental_won_pipeline |->
         RMax(RZero, RMul(RSub(enhanced_win_rate, metrics.win_rate),
                          Int2R(open_pipeline)))]

\* lines 922-929: the coverage-adjusted forecast
forecast_fields(expected_open_wins_current, expected_open_wins_adj, open_pipeline) ==
    [expected_open_wins_current |-> expected_open_wins_current,
     expected_open_wins_adj |-> expected_open_wins_adj,
     coverage_adj_win_rate |->
         coverage_adj_win_rate_of(expected_open_wins_adj, open_pipeline),
     forecast_gap |->
         forecast_gap_of(expected_open_wins_current, expected_open_wins_adj)]

\* lines 656-673 and 994-997: the stage bucket and the Stage Group of each
\* opportunity
outcome_fields ==
    [stage_bucket |->
         [i \in 1..Len(opps.rows) |->
             stage_bucket_for_id(opps.rows, masks.sel, masks.user_mapped_any,
                                 opps.rows[i].id)],
     stage_group |-> stage_group_of(masks.won, masks.lost)]

\* lines 816-821 on the two fractions of lines 812-813
scored_fields(open_pipeline, open_opps_total, pct_2plus_open, pct_zero_open) ==
    score_fields(open_pipeline, open_opps_total, pct_2plus_open, pct_zero_open,
                 coverage_score(pct_2plus_open, pct_zero_open,
                                metrics.avg_cr_won, metrics.avg_cr_open))

open_fields(w, open_df, open_pipeline, open_opps_total) ==
    scored_fields(open_pipeline, open_opps_total,
                  pct_2plus_open_of(open_df, open_opps_total),
                  pct_zero_open_of(open_df, open_opps_total))
        @@ simulator_fields(w.target_contacts,
                            modeled_win_rate_for_open(metrics.avg_cr_open,
                                                      metrics.win_rate,
                                                      w.target_contacts),
                            open_pipeline)
        @@ forecast_fields(expected_open_wins_current_of(metrics.win_rate,
                                                         open_pipeline),
                           expected_open_wins_adj_of(open_df, metrics.win_rate),
                           open_pipeline)

\* everything the report shows for the slider values w, open_df being
\* opps.loc[open_mask]
report_of(w, open_df) ==
    [metrics EXCEPT !.st = "rendered"]
        @@ gate_fields(w,
                       IF masks.user_mapped_any
                       THEN Loc(opps.rows, masks.mid) ELSE open_df,
                       IF masks.user_mapped_any
                       THEN Loc(opps.rows, masks.late) ELSE open_df)
        @@ open_fields(w, open_df, open_pipeline_of(open_df),
                       open_opps_total_of(open_df))
        @@ days_fields
        @@ outcome_fields

\* lines 656-673, 743-764, 795-822, 892-929 and 994-997: the stage buckets of
\* the seniority matrix, the stage gates and their findings, pipeline risk,
\* the coverage score, the simulator, the coverage-adjusted forecast and the
\* Stage Group of the charts
RenderReport ==
    /\ pc = "computed"
    /\ LET default_mid_gate == default_mid_gate_of(metrics.avg_cr_won)
           default_late_gate == default_late_gate_of(metrics.avg_cr_won)
       IN  IF ~(/\ slider_accepts(RZero, Int2R(8), default_mid_gate)
                /\ slider_accepts(RZero, Int2R(10), default_late_gate))
           THEN /\ pc' = "crashed"
                /\ ui' = [ui EXCEPT !.exception = "StreamlitAPIException"]
                /\ UNCHANGED metrics
           ELSE /\ \E w \in SliderSettings(default_mid_gate, default_late_gate) :
                      metrics' = report_of(w, Loc(opps.rows, masks.open))
                /\ pc' = "rendered"
                /\ UNCHANGED ui
    /\ UNCHANGED <<opps_file, roles_file, opps, roles, masks,
                   clean_call, load_call, seniority_call, sim_call,
          normalize_call, wilson_call>>

Next ==
    \/ LoadFiles
    \/ ValidateColumns
    \/ CleanAndCoerce
    \/ FilterByType
    \/ MapStages
    \/ ComputeMetrics
    \/ RenderReport

Spec == Init /\ [][Next]_vars

-----------------------------------------------------------------------------
(* Claims checked under Spec *)

DefaultSelection ==
    [won |-> suggested_won_of(stage_values_of(opps.rows)),
     lost |-> suggested_lost_of(stage_values_of(opps.rows)),
     early |-> {}, mid |-> {}, late |-> {}]

\* C1: for every opportunity and every stage selection the widgets allow,
\* the opportunity is in exactly one of won_mask, lost_mask and open_mask.
C1_ExactlyOneOutcome ==
    masks.st = "set" =>
        \A i \in 1..Len(opps.rows) :
            /\ masks.won[i] \/ masks.lost[i] \/ masks.open[i]
            /\ ~(masks.won[i] /\ masks.lost[i])
            /\ ~(masks.won[i] /\ masks.open[i])
            /\ ~(masks.lost[i] /\ masks.open[i])

IsScenarioRun ==
    /\ opps_file.rows = ScenarioOppRows
    /\ roles_file.rows = ScenarioRoleRows
    /\ masks.st = "set"
    /\ masks.sel = DefaultSelection

\* C2: with opportunities 1 (1000, Closed Won), 2 (500, Closed Lost),
\* 3 (2000, Qualification), contact roles (1,A), (1,B), (2,C) and the default
\* selections, win_rate = 1/2, avg_cr_won = 2, avg_cr_lost = 1, avg_cr_open = 0,
\* opps_without_cr = 1 and total_pipeline = 3500.
C2_EndToEndScenario ==
    (pc \in {"computed", "rendered"} /\ IsScenarioRun) =>
        /\ metrics.win_rate = <<1, 2>>
        /\ metrics.avg_cr_won = <<2, 1>>
        /\ metrics.avg_cr_lost = <<1, 1>>
        /\ metrics.avg_cr_open = <<0, 1>>
        /\ metrics.opps_without_cr = 1
        /\ metrics.total_pipeline = 3500

\* C2 witness: the scenario has been computed and rendered.
C2_Witness ==
    /\ pc = "rendered"
    /\ IsScenarioRun
    /\ opps_file.headers = OppHeadersExport
    /\ metrics.win_rate = <<1, 2>>

\* the text of an ID cell written as a float, and of one written plainly
FloatText(n) == <<Digit[n], ".", "0">>
PlainText(n) == <<Digit[n]>>

\* the contacts the uploaded Contact Roles rows give opportunity n
RawContactsOf(n) ==
    {r.contact.s : r \in {x \in Range(roles_file.rows) :
                             astype_str(x.opp) = FloatText(n)}}

\* C3: a Contact Role row whose Opportunity ID is written "n.0" joins to the
\* opportunity whose ID is written "n": the row survives the role filter and
\* counts in that opportunity's contact_count.
C3_FloatSuffixJoins ==
    pc \in {"filtered", "mapped", "computed", "rendered"} =>
        \A n \in 1..MaxOpps :
            (/\ RawContactsOf(n) # {}
             /\ \E o \in Range(opps_file.rows) : astype_str(o.id) = PlainText(n)
             /\ \E o \in Range(opps.rows) : o.id = PlainText(n))
            => /\ \A c \in RawContactsOf(n) :
                     [opp |-> PlainText(n), contact |-> c] \in Range(roles.rows)
               /\ pc \in {"computed", "rendered"} =>
                     \A o \in Range(opps.rows) :
                         o.id = PlainText(n) =>
                             o.contact_count = Cardinality(RawContactsOf(n))

\* C3 witness: roles written "1.0" have been counted on opportunity "1".
C3_Witness ==
    /\ pc = "computed"
    /\ Cardinality(RawContactsOf(1)) = 2
    /\ \E o \in Range(opps_file.rows) : astype_str(o.id) = PlainText(1)
    /\ \E o \in Range(opps.rows) : o.id = PlainText(1) /\ o.contact_count = 2

\* C6: the Buying Group Coverage Score is in [0, 100] for every input.
C6_ScoreInRange ==
    pc = "rendered" =>
        /\ RLe(RZero, metrics.score)
        /\ RLe(metrics.score, Int2R(100))

\* C6 witness: a rendered run where the open opportunities average more
\* contacts than the won ones (a negative gap before the max with 0).
C6_Witness ==
    /\ pc = "rendered"
    /\ RLt(RZero, metrics.avg_cr_won)
    /\ RLt(metrics.avg_cr_won, metrics.avg_cr_open)
    /\ metrics.score = Int2R(100)

MaskedIds(mask) == {opps.rows[i].id : i \in {j \in 1..Len(opps.rows) : mask[j]}}

\* C7: win_rate equals won_count / (won_count + lost_count), lies in [0, 1],
\* and is 0 when there are no Won and no Lost opportunities.
C7_WinRate ==
    pc \in {"computed", "rendered"} =>
        LET w == Cardinality(MaskedIds(masks.won))
            l == Cardinality(MaskedIds(masks.lost))
        IN  /\ metrics.won_count = w
            /\ metrics.lost_count = l
            /\ metrics.win_rate[2] > 0
            /\ metrics.win_rate[1] * (w + l) = w * metrics.win_rate[2]
            /\ RLe(RZero, metrics.win_rate)
            /\ RLe(metrics.win_rate, ROne)
            /\ (w + l = 0) => metrics.win_rate = RZero

\* C7 witness: two Won opportunities and one Lost give 2/3.
C7_Witness ==
    /\ pc = "computed"
    /\ metrics.won_count = 2
    /\ metrics.lost_count = 1
    /\ metrics.win_rate = <<2, 3>>

\* C9: if a required column is absent after normalization, the run shows an
\* error naming the missing columns (those of the Opportunities file, or else
\* those of the Contact Roles file) and halts: no ID is cleaned, nothing is
\* filtered, no metric is computed, and the run takes no further step.
C9_MissingColumnsHalt ==
    pc \in {"validated", "halted"} =>
        LET missing_opps ==
                missing_columns(required_opps,
                    normalize_and_standardize_columns(opps_file.headers, FALSE))
            missing_roles ==
                missing_columns(required_roles,
                    normalize_and_standardize_columns(roles_file.headers, TRUE))
        IN  IF missing_opps # <<>> \/ missing_roles # <<>>
            THEN /\ pc = "halted"
                 /\ ui.error = IF missing_opps # <<>>
                               THEN [file |-> "Opportunities",
                                     columns |-> missing_opps]
                               ELSE [file |-> "Contact Roles",
                                     columns |-> missing_roles]
                 /\ opps.rows = opps_file.rows
                 /\ roles.rows = roles_file.rows
                 /\ masks = Idle
                 /\ metrics = Idle
                 /\ ~ENABLED Next
            ELSE /\ pc = "validated"
                 /\ ui.error.file = "none"

\* C9 witness: a run halted on a Contact Roles file without Contact ID.
C9_Witness ==
    /\ pc = "halted"
    /\ ui.error = [file |-> "Contact Roles", columns |-> <<col_Contact_ID>>]

\* C11: the IDs of both tables are cleaned and the rows with an empty cleaned
\* key are removed before the type filter and before the Contact Roles rows
\* are matched against the opportunities: until the cleaning step nothing is
\* filtered or matched, and from it on every row of both tables carries
\* cleaned, non-empty keys.
C11_CleanedBeforeFilterAndJoin ==
    /\ pc \in {"start", "loaded", "validated"} =>
          /\ opps.rows \in {<<>>, opps_file.rows}
          /\ roles.rows \in {<<>>, roles_file.rows}
          /\ ~ui.warning /\ masks = Idle /\ metrics = Idle
    /\ pc \in {"cleaned", "filtered", "mapped", "computed", "rendered"} =>
          /\ \A r \in Range(opps.rows) :
                /\ r.id # <<>>
                /\ \E raw \in Range(opps_file.rows) :
                      r.id = clean_id_series(raw.id)
          /\ \A r \in Range(roles.rows) :
                /\ r.opp # <<>> /\ r.contact # <<>>
                /\ \E raw \in Range(roles_file.rows) :
                      /\ r.opp = clean_id_series(raw.opp)
                      /\ r.contact = clean_id_series(raw.contact)

\* C11 witness: a run past the join in which an Opportunity row and two
\* Contact Roles rows were removed for an empty cleaned key.
C11_Witness ==
    /\ pc = "filtered"
    /\ roles_file.rows = RoleRowsWithGaps
    /\ Len(roles.rows) = 1
    /\ Len(opps.rows) = 1
    /\ Len(opps_file.rows) = 2

\* C12: when a non-empty Contact Roles table has no row matching the filtered
\* opportunities, a warning is shown and the run does not halt: no error is
\* raised, the step after the warning is enabled, and the metrics computed and
\* rendered have opps_with_cr = 0 and contact_count = 0 on every opportunity.
C12_WarningWithoutHalt ==
    (/\ pc \in {"filtered", "mapped", "computed", "rendered"}
     /\ roles_file.rows # <<>>
     /\ roles.rows = <<>>)
    => /\ ui.warning
       /\ ui.error.file = "none"
       /\ ui.exception = "none"
       /\ pc = "filtered" => ENABLED MapStages
       /\ pc \in {"computed", "rendered"} =>
             /\ metrics.opps_with_cr = 0
             /\ \A r \in Range(opps.rows) : r.contact_count = 0

\* C12 witness: a rendered report of at least two opportunities after the
\* warning, from a Contact Roles file that had rows.
C12_Witness ==
    /\ pc = "rendered"
    /\ ui.warning
    /\ Len(roles_file.rows) >= 2
    /\ Len(opps.rows) >= 2
    /\ metrics.opps_with_cr = 0

\* C13: opps_with_cr is the number of distinct Opportunity IDs of the filtered
\* Contact Roles table, opps_with_cr + opps_without_cr = total_opps,
\* opps_without_cr is the number of opportunities with contact_count = 0, and
\* pipeline_with_cr + pipeline_without_cr = total_pipeline.
C13_CoveragePartition ==
    pc \in {"computed", "rendered"} =>
        /\ metrics.total_opps = Cardinality({r.id : r \in Range(opps.rows)})
        /\ metrics.opps_with_cr = Cardinality({r.opp : r \in Range(roles.rows)})
        /\ metrics.opps_with_cr + metrics.opps_without_cr = metrics.total_opps
        /\ metrics.opps_without_cr =
              Cardinality({r.id : r \in {x \in Range(opps.rows) :
                                            x.contact_count = 0}})
        /\ metrics.pipeline_with_cr + metrics.pipeline_without_cr
              = metrics.total_pipeline
        /\ metrics.pipeline_with_cr =
              SumSeq([i \in 1..Len(opps.rows) |->
                         IF opps.rows[i].contact_count > 0
                         THEN opps.rows[i].Amount ELSE 0])

\* C13 witness: three opportunities, two of them with Contact Roles.
C13_Witness ==
    /\ pc = "computed"
    /\ metrics.total_opps = 3
    /\ metrics.opps_with_cr = 2
    /\ metrics.opps_without_cr = 1
    /\ metrics.pipeline_with_cr = 1500
    /\ metrics.pipeline_without_cr = 2000

\* C15: the five explicit stage sets that reach the masks are pairwise
\* disjoint.
C15_StageSetsDisjoint ==
    masks.st = "set" =>
        LET sets == <<masks.sel.won, masks.sel.lost, masks.sel.early,
                      masks.sel.mid, masks.sel.late>>
        IN  \A i, j \in 1..5 : i # j => sets[i] \cap sets[j] = {}

\* C18: before clamping, the coverage score is 60 x (fraction of open opps
\* with >= 2 contacts) + 30 x (1 - fraction of open opps with 0 contacts)
\* + 10 x max(0, 1 - gap / avg_cr_won) with gap = max(0, avg_cr_won -
\* avg_cr_open), for every input with avg_cr_won > 0.
C18_RawScoreFormula ==
    (pc = "rendered" /\ RLt(RZero, metrics.avg_cr_won)) =>
        LET gap == RMax(RZero, RSub(metrics.avg_cr_won, metrics.avg_cr_open))
        IN  coverage_score_raw(metrics.pct_2plus_open, metrics.pct_zero_open,
                               metrics.avg_cr_won, metrics.avg_cr_open)
            = RAdd(RAdd(RMul(Int2R(60), metrics.pct_2plus_open),
                        RMul(Int2R(30), RSub(ROne, metrics.pct_zero_open))),
                   RMul(Int2R(10),
                        RMax(RZero,
                             RSub(ROne, RDiv(gap, metrics.avg_cr_won)))))

\* the rows of a bucket that carry the dates its average needs
DatedRows(mask, needs_close) ==
    {i \in 1..Len(opps.rows) :
        /\ mask[i]
        /\ ~opps.rows[i].Created.nat
        /\ needs_close => ~opps.rows[i].Close.nat}

\* C19: every reported average is a defined number, never NaN: when a
\* non-empty Won, Lost or Open bucket has no opportunity with the dates
\* needed, the reported average days value is zero.
C19_DayAveragesDefined ==
    pc = "rendered" =>
        /\ metrics.avg_days_won.t # "nan"
        /\ metrics.avg_days_lost.t # "nan"
        /\ metrics.avg_age_open.t # "nan"
        /\ DatedRows(masks.won, TRUE) = {} =>
              metrics.shown_days_won = str_0_days
        /\ DatedRows(masks.lost, TRUE) = {} =>
              metrics.shown_days_lost = str_0_days
        /\ DatedRows(masks.open, FALSE) = {} =>
              metrics.shown_age_open = str_0_days

\* C20: after load and cleaning, every Opportunity ID of the Opportunity
\* table used for the metrics is non-empty and unique: no two rows carry the
\* same cleaned Opportunity ID.
C20_OpportunityIdsUnique ==
    pc \in {"cleaned", "filtered", "mapped", "computed", "rendered"} =>
        /\ \A i \in 1..Len(opps.rows) : opps.rows[i].id # <<>>
        /\ \A i, j \in 1..Len(opps.rows) :
              i # j => opps.rows[i].id # opps.rows[j].id


\* C21: after type coercion every opportunity's Amount is a non-negative
\* number, and an Amount cell that is missing or not a number has become 0.
C21_AmountNonNegative ==
    /\ pc \in {"cleaned", "filtered", "mapped", "computed", "rendered"} =>
          \A r \in Range(opps.rows) : r.Amount \in Int /\ r.Amount >= 0
    /\ pc = "cleaned" =>
          LET kept == SelectSeq(opps_file.rows,
                                LAMBDA raw : clean_id_series(raw.id) # <<>>)
          IN  /\ Len(kept) = Len(opps.rows)
              /\ \A i \in 1..Len(kept) :
                    kept[i].Amount.t # "num" => opps.rows[i].Amount = 0


\* the risk weight the forecast gives an opportunity with n contacts
C22_Weight(n) == IF n = 0 THEN Rat(3, 5) ELSE IF n = 1 THEN Rat(4, 5) ELSE ROne

\* C22: each open opportunity is weighted 0.6 with 0 contacts, 0.8 with
\* exactly 1 and 1.0 with 2 or more; the adjusted expected won pipeline is the
\* sum over the open opportunities of Amount x win_rate x weight, the coverage
\* risk gap is max(0, win_rate x open_pipeline - adjusted), and the adjusted
\* value never exceeds win_rate x open_pipeline.
C22_CoverageAdjustedForecast ==
    pc = "rendered" =>
        LET open_df == Loc(opps.rows, masks.open)
            naive == RMul(metrics.win_rate,
                          Int2R(SumSeq([i \in 1..Len(open_df) |->
                                           open_df[i].Amount])))
            adjusted ==
                RSumSeq([i \in 1..Len(open_df) |->
                            RMul(RMul(Int2R(open_df[i].Amount), metrics.win_rate),
                                 C22_Weight(open_df[i].contact_count))])
        IN  /\ metrics.expected_open_wins_adj = adjusted
            /\ metrics.forecast_gap = RMax(RZero, RSub(naive, adjusted))
            /\ RLe(adjusted, naive)


\* the rows of a phase: the rows whose stage is in the phase's stage set, or
\* every Open row when none of the five stage sets is selected
C23_Population(stages) ==
    IF \A x \in {masks.sel.won, masks.sel.lost, masks.sel.early,
                 masks.sel.mid, masks.sel.late} : x = {}
    THEN {i \in 1..Len(opps.rows) : ~(masks.won[i] \/ masks.lost[i])}
    ELSE {i \in 1..Len(opps.rows) : opps.rows[i].Stage \in stages}

C23_Findings(found, stages, gate_target) ==
    LET population == C23_Population(stages)
        below == {i \in population :
                     RLt(Int2R(opps.rows[i].contact_count), gate_target)}
        ids_below == {opps.rows[i].id : i \in below}
        ids_phase == {opps.rows[i].id : i \in population}
    IN  /\ found.below_cnt = Cardinality(ids_below)
        /\ found.cnt = Cardinality(ids_phase)
        /\ found.below_pipe =
              SumSeq([i \in 1..Len(opps.rows) |->
                         IF i \in below THEN opps.rows[i].Amount ELSE 0])
        /\ found.below_pct =
              IF ids_phase = {} THEN RZero
              ELSE Rat(Cardinality(ids_below), Cardinality(ids_phase))

\* C23: for the Mid and the Late phase, the below-gate count is the number of
\* opportunities of the phase with contact_count strictly below the threshold,
\* the below-gate pipeline is the sum of their Amount, the fraction is count /
\* phase count and 0 for an empty phase; the phase population is the
\* opportunities whose stage is in the phase's stage set, and the whole Open
\* set when no stage set at all is selected.
C23_StageGateFindings ==
    pc = "rendered" =>
        /\ C23_Findings(metrics.mid, masks.sel.mid, metrics.mid_gate_target)
        /\ C23_Findings(metrics.late, masks.sel.late, metrics.late_gate_target)

\* C23 witness: three Mid opportunities with 2, 1 and 0 contacts against the
\* gate 2.0: two are below it, the one at the gate is not.
C23_Witness ==
    /\ pc = "rendered"
    /\ masks.sel.mid = {stage_Qualification}
    /\ metrics.mid_gate_target = Int2R(2)
    /\ metrics.mid.cnt = 3
    /\ metrics.mid.below_cnt = 2
    /\ metrics.mid.below_pipe = 2500
    /\ metrics.mid.below_pct = Rat(2, 3)
    /\ metrics.late.cnt = 0
    /\ metrics.late.below_pct = RZero
    /\ \E r \in Range(opps.rows) : r.contact_count = 2


\* the distinct cleaned Contact IDs the Contact Roles file links to an
\* Opportunity ID
C24_ContactsOf(id) ==
    {clean_id_series(raw.contact) :
        raw \in {x \in Range(roles_file.rows) :
                    /\ clean_id_series(x.opp) = id
                    /\ clean_id_series(x.contact) # <<>>}}

\* C24: each opportunity's contact_count is the number of distinct cleaned
\* Contact IDs among the Contact Roles rows that carry its Opportunity ID and
\* survive the role filter: a repeated (opportunity, contact) row does not
\* raise it, no role of an opportunity outside the filtered Opportunity set
\* is counted, and an opportunity without a role row has contact_count 0.
C24_DistinctContacts ==
    pc \in {"computed", "rendered"} =>
        /\ \A r \in Range(opps.rows) :
              r.contact_count = Cardinality(C24_ContactsOf(r.id))
        /\ \A x \in Range(roles.rows) :
              x.opp \in {r.id : r \in Range(opps.rows)}

\* C24 witness: the type filter has removed opportunity 2, whose roles and
\* those of the unknown opportunity 3 are dropped; opportunity 1 has the same
\* contact on two rows and contact_count 1.
C24_Witness ==
    /\ pc = "computed"
    /\ roles_file.rows = RoleRowsRepeated
    /\ Len(opps_file.rows) = 2
    /\ Len(opps.rows) = 1
    /\ Len(roles.rows) = 2
    /\ opps.rows[1].contact_count = 1


\* the clamped value of the score formula, before round(., 0)
C25_ClampedScore ==
    RMin(RMax(coverage_score_raw(metrics.pct_2plus_open, metrics.pct_zero_open,
                                 metrics.avg_cr_won, metrics.avg_cr_open),
              RZero),
         Int2R(100))

\* C25: the score label is 'High risk' exactly when the clamped coverage
\* score is below 40, 'Needs improvement' exactly when it is at least 40 and
\* below 70, and 'Healthy' exactly when it is at least 70, the score being the
\* clamped formula value before it is rounded.
C25_LabelByClampedScore ==
    pc = "rendered" =>
        /\ metrics.score_label = "High risk"
              <=> RLt(C25_ClampedScore, Int2R(40))
        /\ metrics.score_label = "Needs improvement"
              <=> (RLe(Int2R(40), C25_ClampedScore)
                     /\ RLt(C25_ClampedScore, Int2R(70)))
        /\ metrics.score_label = "Healthy"
              <=> RLe(Int2R(70), C25_ClampedScore)


\* Early, Mid and Late read as Open
C26_AsOutcome(bucket) ==
    IF bucket \in {"Early", "Mid", "Late"} THEN "Open" ELSE bucket

\* C26: for every opportunity and every stage configuration the won/lost/open
\* masks of the metrics, the Stage Group of the charts and stage_bucket_for_id
\* of the seniority matrix (Early, Mid and Late read as Open) give the same one
\* of Won, Lost, Open.
C26_OutcomeAssignmentsAgree ==
    pc = "rendered" =>
        \A i \in 1..Len(opps.rows) :
            LET by_masks == {o \in {"Won", "Lost", "Open"} :
                                \/ o = "Won" /\ masks.won[i]
                                \/ o = "Lost" /\ masks.lost[i]
                                \/ o = "Open" /\ masks.open[i]}
            IN  /\ by_masks = {metrics.stage_group[i]}
                /\ metrics.stage_group[i] = C26_AsOutcome(metrics.stage_bucket[i])


\* C27: with the default Opportunity-Type selection (every type offered) the
\* type filter removes no opportunity of the cleaned table, so the retained
\* set equals the set retained under an empty selection; and a larger
\* selection never retains fewer opportunities than a smaller one.
C27_DefaultTypeSelectionKeepsAll ==
    pc = "cleaned" =>
        LET all_types == all_types_of(opps.rows)
        IN  /\ filter_by_type(opps.rows, all_types) = opps.rows
            /\ filter_by_type(opps.rows, all_types)
                  = filter_by_type(opps.rows, {})
            /\ \A small, large \in SUBSET all_types :
                  small \subseteq large =>
                      Range(filter_by_type(opps.rows, small))
                          \subseteq Range(filter_by_type(opps.rows, large))


\* C28: for every value of avg_cr_won the suggested default gates are valid
\* inputs of their sliders, the default Mid gate in [0, 8] and the default
\* Late gate in [0, 10], so that no run stops at the sliders before the
\* stage-gate findings.
C28_DefaultGatesInRange ==
    /\ metrics.st \in {"computed", "rendered"} =>
          LET default_mid_gate == default_mid_gate_of(metrics.avg_cr_won)
              default_late_gate == default_late_gate_of(metrics.avg_cr_won)
          IN  /\ RLe(RZero, default_mid_gate)
              /\ RLe(default_mid_gate, Int2R(8))
              /\ RLe(RZero, default_late_gate)
              /\ RLe(default_late_gate, Int2R(10))
    /\ ui.exception # "StreamlitAPIException"


str_vice_president == <<"v", "i", "c", "e", " ", "p", "r", "e", "s", "i", "d", "e", "n", "t">>
str_senior_vice_president == <<"s", "e", "n", "i", "o", "r", " ", "v", "i", "c", "e", " ", "p", "r", "e", "s", "i", "d", "e", "n", "t">>
str_executive_vice_president == <<"e", "x", "e", "c", "u", "t", "i", "v", "e", " ", "v", "i", "c", "e", " ", "p", "r", "e", "s", "i", "d", "e", "n", "t">>
str_chief_of_staff == <<"c", "h", "i", "e", "f", " ", "o", "f", " ", "s", "t", "a", "f", "f">>

\* C29: every keyword alternative of a seniority class decides the class of a
\* title that consists of that phrase alone: "vice president" is bucketed VP,
\* "senior vice president" and "executive vice president" are bucketed
\* EVP / SVP, and "chief of staff" is bucketed Director / Head.  Checked
\* under SpecSeniority.
C29_EveryAlternativeDecides ==
    seniority_call.st = "returned" =>
        /\ seniority_call.title = StrCell(str_vice_president)
              => seniority_call.bucket = "VP"
        /\ seniority_call.title \in {StrCell(str_senior_vice_president),
                                     StrCell(str_executive_vice_president)}
              => seniority_call.bucket = "EVP / SVP"
        /\ seniority_call.title = StrCell(str_chief_of_staff)
              => seniority_call.bucket = "Director / Head"

=============================================================================
